---- MODULE Spec2Model ----
(***************************************************************************)
(* A model of the LZA codec of cdragan/minify: the bit emitter and bit     *)
(* reader, the adaptive binary arithmetic coder, the packet field codecs,  *)
(* the repeat finder and the compress / decompress pipeline.               *)
(*                                                                         *)
(* Numbers.  The model checker's integers are 32-bit signed, the program's *)
(* registers are uint32_t (and one product is uint64_t).  A uint32_t that  *)
(* can exceed 2^31 - 1 is carried as a pair <<hi, lo>> of 16-bit halves    *)
(* and a uint64_t as four 16-bit limbs, least significant first; all       *)
(* arithmetic on them wraps exactly as the C arithmetic does.  Values that *)
(* provably stay small (positions, lengths, byte values, the 17-bit        *)
(* accumulators of the bit readers and writers) are plain integers.        *)
(*                                                                         *)
(* Assertions.  The sources are built with assertions enabled (the         *)
(* NDEBUG variant of bit_stream.h does not agree with bit_stream.c).  A    *)
(* failed assert() aborts the program: the record that holds the state     *)
(* gets fail = TRUE, later operations on it do nothing, and the action     *)
(* that ran the call moves to pc = "abort".                                *)
(***************************************************************************)
EXTENDS Integers, Sequences, FiniteSets, TLC

VARIABLES bio, ar, fld, fr, lz

vars == <<bio, ar, fld, fr, lz>>

\* The value of a component's variable under a specification that does not
\* run that component.
Idle == [pc |-> "idle"]

(***************************************************************************)
(* uint32_t and uint64_t arithmetic                                        *)
(***************************************************************************)
B16 == 2 ^ 16

\* uint32_t from a small non-negative integer
U32(n) == <<n \div B16, n % B16>>

\* the integer value of a uint32_t known to be below 2^31
ToInt(a) == a[1] * B16 + a[2]

Lt32(a, b) == a[1] < b[1] \/ (a[1] = b[1] /\ a[2] < b[2])

Le32(a, b) == a = b \/ Lt32(a, b)

\* a + b modulo 2^32
Add32(a, b) ==
    LET lo == a[2] + b[2]
    IN  <<(a[1] + b[1] + (lo \div B16)) % B16, lo % B16>>

\* a - b modulo 2^32
Sub32(a, b) ==
    LET lo == a[2] - b[2] + B16
        hi == a[1] - b[1] - (1 - (lo \div B16)) + B16
    IN  <<hi % B16, lo % B16>>

\* (a << 1) modulo 2^32
Shl32(a) == <<(2 * a[1] + (a[2] \div 32768)) % B16, (2 * a[2]) % B16>>

\* bit i (0 = least significant) of a size_t whose bits 32.. are zero
BitOf(a, i) ==
    IF i < 16 THEN (a[2] \div (2 ^ i)) % 2
    ELSE IF i < 32 THEN (a[1] \div (2 ^ (i - 16))) % 2
    ELSE 0

RECURSIVE TopBit16(_)
\* index of the highest set bit of h, 0 < h < 2^16
TopBit16(h) == IF h < 2 THEN 0 ELSE 1 + TopBit16(h \div 2)

\* 31 - __builtin_clz(a) for a # 0
TopBit32(a) == IF a[1] > 0 THEN 16 + TopBit16(a[1]) ELSE TopBit16(a[2])

\* (uint64_t)a, four limbs
Ext64(a) == <<a[2], a[1], 0, 0>>

RECURSIVE Sub64(_, _, _, _)
\* x - y modulo 2^64, limb i onwards with borrow b
Sub64(x, y, i, b) ==
    IF i > 4 THEN <<>>
    ELSE LET t == x[i] - y[i] - b + B16
         IN  <<t % B16>> \o Sub64(x, y, i + 1, 1 - (t \div B16))

RECURSIVE AddSmall64(_, _, _)
\* x + c modulo 2^64, limb i onwards
AddSmall64(x, i, c) ==
    IF i > 4 THEN <<>>
    ELSE LET t == x[i] + c
         IN  <<t % B16>> \o AddSmall64(x, i + 1, t \div B16)

RECURSIVE MulSmall64(_, _, _, _)
\* x * m modulo 2^64, for m < 2^15
MulSmall64(x, m, i, c) ==
    IF i > 4 THEN <<>>
    ELSE LET t == x[i] * m + c
         IN  <<t % B16>> \o MulSmall64(x, m, i + 1, t \div B16)

RECURSIVE DivSmall64(_, _, _, _)
\* the limbs, most significant first, of x / d for 0 < d < 2^15
DivSmall64(x, d, i, rem) ==
    IF i < 1 THEN <<>>
    ELSE LET cur == rem * B16 + x[i]
         IN  <<cur \div d>> \o DivSmall64(x, d, i - 1, cur % d)

(***************************************************************************)
(* bit_emit.c: the MSB-first bit emitter                                   *)
(***************************************************************************)
\* BIT_EMITTER: out holds the bytes written so far (buf - begin = Len(out)),
\* size is end - begin.
init_bit_emitter(size) ==
    [out |-> <<>>, size |-> size, data |-> 1, fail |-> FALSE]

be_emit_bit(e, bit) ==
    IF e.fail THEN e
    ELSE LET d == e.data * 2 + bit
         IN  IF d > 255
             THEN IF Len(e.out) < e.size
                  THEN [e EXCEPT !.out = Append(e.out, d % 256), !.data = 1]
                  ELSE [e EXCEPT !.fail = TRUE]
             ELSE [e EXCEPT !.data = d]

RECURSIVE be_emit_bits(_, _, _)
\* value is below 2^bits here, so the left-justification keeps all of it
be_emit_bits(e, value, bits) ==
    LET e1 == be_emit_bit(e, (value \div (2 ^ (bits - 1))) % 2)
    IN  IF bits = 1 THEN e1 ELSE be_emit_bits(e1, value, bits - 1)

\* emit_tail that emits eight bits
be_emit_tail_byte(e) == be_emit_bits(e, (e.data % 2) * 255, 8)

be_emit_tail(e) == be_emit_bits(e, (e.data % 2) * 127, 7)

(***************************************************************************)
(* bit_stream.c: the bit reader                                            *)
(***************************************************************************)
\* Memory is a sequence of bytes addressed from 0.
Rd(mem, i) == IF i < Len(mem) THEN mem[i + 1] ELSE 0

\* BIT_STREAM: buf and end are addresses in the memory the stream reads.
init_bit_stream(buf, size) ==
    [buf |-> buf, end |-> buf + size, data |-> 0, fail |-> size = 0]

\* one iteration of the loop of get_bits: the stream and the bit it yields
bs_step_noreplay(mem, s) ==
    LET ld == (s.data % 256) = 0
        d  == IF ld
              THEN IF s.buf < s.end THEN Rd(mem, s.buf) * 2 + 1 ELSE s.data
              ELSE s.data
        b  == IF ld /\ s.buf < s.end THEN s.buf + 1 ELSE s.buf
    IN  [s |-> [s EXCEPT !.buf = b, !.data = (d * 2) % (2 ^ 17)],
         bit |-> (d \div 256) % 2]

bs_step(mem, s) ==
    LET ld == (s.data % 256) = 0
        d  == IF ld
              THEN IF s.buf < s.end THEN Rd(mem, s.buf) * 2 + 1 ELSE s.data \div 2
              ELSE s.data
        b  == IF ld /\ s.buf < s.end THEN s.buf + 1 ELSE s.buf
    IN  [s |-> [s EXCEPT !.buf = b, !.data = d * 2], bit |-> (d \div 256) % 2]

RECURSIVE get_bits_from(_, _, _, _)
get_bits_from(mem, s, bits, value) ==
    \* value is evaluated at each step, as the loop does
    IF bits = 0 \/ value = <<>> THEN [s |-> s, v |-> value]
    ELSE LET r == bs_step(mem, s)
         IN  get_bits_from(mem, r.s, bits - 1, Add32(Shl32(value), U32(r.bit)))

\* get_bits: the stream after the call and the uint32_t it returns
get_bits(mem, s, bits) == get_bits_from(mem, s, bits, U32(0))

get_one_bit(mem, s) ==
    LET r == get_bits(mem, s, 1) IN [s |-> r.s, v |-> ToInt(r.v)]

(***************************************************************************)
(* arith_encode.c: the adaptive model, the encoder and its own decoder     *)
(***************************************************************************)
MAX_WINDOW_SIZE == 2048

\* MODEL.  prob is indexed by bit + 1; history holds the slots written so far.
init_model(window_size) ==
    [prob |-> <<1, 1>>, history_prev |-> 0, history_next |-> 0,
     window_size |-> window_size, history |-> <<>>,
     fail |-> window_size > MAX_WINDOW_SIZE]

update_model_noevict(model, bit) ==
    [model EXCEPT !.prob[bit + 1] = @ + 1]

update_model(model, bit) ==
    IF model.fail THEN model
    ELSE
    LET prob1   == [model.prob EXCEPT ![bit + 1] = @ + 1]
        hist1   == (model.history_next :> bit) @@ model.history
        next1   == (model.history_next + 1) % (MAX_WINDOW_SIZE * 2)
        hsize   == IF next1 < model.history_prev
                   THEN next1 - model.history_prev + MAX_WINDOW_SIZE * 2
                   ELSE next1 - model.history_prev
    IN  IF next1 = model.history_prev
        THEN [model EXCEPT !.fail = TRUE]
        ELSE IF hsize > model.window_size
        THEN [model EXCEPT
                !.prob = [prob1 EXCEPT ![hist1[model.history_prev] + 1] = @ - 1],
                !.history = hist1,
                !.history_next = next1,
                !.history_prev = (model.history_prev + 1) % (MAX_WINDOW_SIZE * 2)]
        ELSE [model EXCEPT !.prob = prob1, !.history = hist1,
                           !.history_next = next1]

\* EMIT: dest holds the bytes written so far, size is end - dest at init.
init_emit(size) == [dest |-> <<>>, size |-> size, data |-> 1, fail |-> FALSE]

ae_emit_bit(emit, bit) ==
    IF emit.fail THEN emit
    ELSE LET d == emit.data * 2 + bit
         IN  IF d > 255
             THEN IF Len(emit.dest) < emit.size
                  THEN [emit EXCEPT !.dest = Append(emit.dest, d % 256), !.data = 1]
                  ELSE [emit EXCEPT !.fail = TRUE]
             ELSE [emit EXCEPT !.data = d]

\* ENCODER
init_encoder(size, window_size) ==
    [model |-> init_model(window_size), emit |-> init_emit(size),
     low |-> U32(0), high |-> <<65535, 65535>>, num_pending |-> 0]

\* mid = (uint32_t)((range * prob0) / (prob0 + prob1)), range in 64 bits
calc_mid(low, high, prob) ==
    LET range == AddSmall64(Sub64(Ext64(high), Ext64(low), 1, 0), 1, 1)
        q     == DivSmall64(MulSmall64(range, prob[1], 1, 0), prob[1] + prob[2], 4, 0)
    IN  <<q[3], q[4]>>

Half    == <<32768, 0>>      \* 0x80000000
Quarter == <<16384, 0>>      \* 0x40000000
ThreeQ  == <<49152, 0>>      \* 0xC0000000

RECURSIVE emit_pending(_, _, _)
emit_pending(emit, out_bit, n) ==
    IF n = 0 THEN emit ELSE emit_pending(ae_emit_bit(emit, out_bit), out_bit, n - 1)

RECURSIVE enc_renorm(_)
\* the for (;;) loop of encode_bit
enc_renorm(e) ==
    IF Lt32(e.high, Half) \/ ~Lt32(e.low, Half)
    THEN LET out_bit == IF ~Lt32(e.low, Half) THEN 1 ELSE 0
             em      == emit_pending(ae_emit_bit(e.emit, out_bit), 1 - out_bit,
                                     e.num_pending)
         IN  enc_renorm([e EXCEPT !.emit = em, !.num_pending = 0,
                                  !.low = Shl32(e.low),
                                  !.high = Add32(Shl32(e.high), U32(1))])
    ELSE IF ~Lt32(e.low, Quarter) /\ Lt32(e.high, ThreeQ)
    THEN enc_renorm([e EXCEPT
            !.num_pending = @ + 1,
            !.low  = Shl32(<<e.low[1] - 16384, e.low[2]>>),
            !.high = Add32(Shl32(<<e.high[1] + 16384, e.high[2]>>), U32(1))])
    ELSE e

encode_bit(e, bit) ==
    IF e.model.fail \/ e.emit.fail THEN e
    ELSE
    LET mid == calc_mid(e.low, e.high, e.model.prob)
        e1  == [e EXCEPT !.model = update_model(e.model, bit)]
        e2  == IF bit = 1
               THEN [e1 EXCEPT !.low = Add32(e.low, mid)]
               ELSE [e1 EXCEPT !.high = Sub32(Add32(e.low, mid), U32(1))]
    IN  enc_renorm(e2)

RECURSIVE emit_last_byte(_, _)
emit_last_byte(emit, out_bit) ==
    IF emit.data = 1 \/ emit.fail THEN emit
    ELSE emit_last_byte(ae_emit_bit(emit, out_bit), out_bit)

\* a tail that only pads the last byte, without the two deciding bits
ae_emit_tail_padonly(e) == [e EXCEPT !.emit = emit_last_byte(e.emit, 0)]

ae_emit_tail(e) ==
    LET out_bit == IF ~Lt32(e.low, Quarter) THEN 1 ELSE 0
        em      == ae_emit_bit(ae_emit_bit(e.emit, out_bit), 1 - out_bit)
    IN  [e EXCEPT !.emit = emit_last_byte(em, 1 - out_bit)]

\* BIT_PULLER
init_bit_puller(src, src_size) ==
    [data |-> 256 + Rd(src, 0), next_byte |-> 1, bytes_left |-> src_size - 1,
     fail |-> src_size = 0]

RECURSIVE pull_bits_from(_, _, _, _)
pull_bits_from(src, p, bits, out_value) ==
    LET out1 == Add32(Shl32(out_value), U32((p.data \div 128) % 2))
        d1   == p.data * 2
        p1   == IF d1 >= 65536
                THEN IF p.bytes_left > 0
                     THEN [p EXCEPT !.data = 256 + Rd(src, p.next_byte),
                                    !.next_byte = @ + 1, !.bytes_left = @ - 1]
                     ELSE [p EXCEPT !.data = d1 \div 2]
                ELSE [p EXCEPT !.data = d1]
    \* the accumulator is evaluated at each step, as the loop does
    IN  IF bits = 1 \/ out1 = <<>> THEN [p |-> p1, v |-> out1]
        ELSE pull_bits_from(src, p1, bits - 1, out1)

pull_bits(src, p, bits) == pull_bits_from(src, p, bits, U32(0))

\* DECODER of arith_encode.c
ae_init_decoder(src, src_size, window_size) ==
    LET p == init_bit_puller(src, src_size)
        r == pull_bits(src, p, 32)
    IN  [model |-> init_model(window_size), bit_puller |-> r.p,
         low |-> U32(0), high |-> <<65535, 65535>>, value |-> r.v,
         out_bit |-> 0]

RECURSIVE ae_dec_renorm(_, _)
ae_dec_renorm(src, d) ==
    LET e12 == Lt32(d.high, Half) \/ ~Lt32(d.low, Half)
        e3  == ~Lt32(d.low, Quarter) /\ Lt32(d.high, ThreeQ)
        d1  == IF e12 THEN d
               ELSE [d EXCEPT !.value = Sub32(d.value, Quarter),
                              !.low   = <<d.low[1] - 16384, d.low[2]>>,
                              !.high  = <<d.high[1] + 16384, d.high[2]>>]
        r   == pull_bits(src, d.bit_puller, 1)
    IN  IF e12 \/ e3
        THEN ae_dec_renorm(src, [d1 EXCEPT
                !.low = Shl32(d1.low),
                !.high = Add32(Shl32(d1.high), U32(1)),
                !.value = Add32(Shl32(d1.value), r.v),
                !.bit_puller = r.p])
        ELSE d

\* decode_next_bit of arith_encode.c; the bit it returns is left in out_bit
ae_decode_next_bit(src, d) ==
    IF d.model.fail \/ d.bit_puller.fail THEN d
    ELSE
    LET mid     == calc_mid(d.low, d.high, d.model.prob)
        out_bit == IF ~Lt32(d.value, Add32(d.low, mid)) THEN 1 ELSE 0
        d1      == [d EXCEPT !.model = update_model(d.model, out_bit),
                             !.out_bit = out_bit]
        d2      == IF out_bit = 1
                   THEN [d1 EXCEPT !.low = Add32(d.low, mid)]
                   ELSE [d1 EXCEPT !.high = Sub32(Add32(d.low, mid), U32(1))]
    IN  ae_dec_renorm(src, d2)

(***************************************************************************)
(* arith_decode.c: the decoder the decompressor uses, with its own copy of *)
(* the model, reading through a BIT_STREAM                                 *)
(***************************************************************************)
ad_init_model(window_size) ==
    [prob |-> <<1, 1>>, history_prev |-> 0, history_next |-> 0,
     window_size |-> window_size, history |-> <<>>,
     fail |-> window_size > MAX_WINDOW_SIZE]

\* update_model of arith_decode.c without the eviction from the window
ad_update_model_noevict(model, bit) ==
    [model EXCEPT !.prob[bit + 1] = @ + 1]

ad_update_model(model, bit) ==
    IF model.fail THEN model
    ELSE
    LET prob1   == [model.prob EXCEPT ![bit + 1] = @ + 1]
        hist1   == (model.history_next :> bit) @@ model.history
        next1   == (model.history_next + 1) % (MAX_WINDOW_SIZE * 2)
        hsize   == IF next1 < model.history_prev
                   THEN next1 - model.history_prev + MAX_WINDOW_SIZE * 2
                   ELSE next1 - model.history_prev
    IN  IF next1 = model.history_prev
        THEN [model EXCEPT !.fail = TRUE]
        ELSE IF hsize > model.window_size
        THEN [model EXCEPT
                !.prob = [prob1 EXCEPT ![hist1[model.history_prev] + 1] = @ - 1],
                !.history = hist1,
                !.history_next = next1,
                !.history_prev = (model.history_prev + 1) % (MAX_WINDOW_SIZE * 2)]
        ELSE [model EXCEPT !.prob = prob1, !.history = hist1,
                           !.history_next = next1]

ad_init_decoder(src, src_size, window_size) ==
    LET s == init_bit_stream(0, src_size)
        r == get_bits(src, s, 32)
    IN  [model |-> ad_init_model(window_size), stream |-> r.s,
         low |-> U32(0), high |-> <<65535, 65535>>, value |-> r.v,
         out_bit |-> 0]

RECURSIVE ad_dec_renorm(_, _)
ad_dec_renorm(src, d) ==
    LET e12 == Lt32(d.high, Half) \/ ~Lt32(d.low, Half)
        e3  == ~Lt32(d.low, Quarter) /\ Lt32(d.high, ThreeQ)
        d1  == IF e12 THEN d
               ELSE [d EXCEPT !.value = Sub32(d.value, Quarter),
                              !.low   = <<d.low[1] - 16384, d.low[2]>>,
                              !.high  = <<d.high[1] + 16384, d.high[2]>>]
        r   == get_one_bit(src, d.stream)
    IN  IF e12 \/ e3
        THEN ad_dec_renorm(src, [d1 EXCEPT
                !.low = Shl32(d1.low),
                !.high = Add32(Shl32(d1.high), U32(1)),
                !.value = Add32(Shl32(d1.value), U32(r.v)),
                !.stream = r.s])
        ELSE d

\* a decoder that takes the upper part of the range for values below
\* low + mid
ad_decode_next_bit_flipped(src, d) ==
    LET mid     == calc_mid(d.low, d.high, d.model.prob)
        out_bit == IF Lt32(d.value, Add32(d.low, mid)) THEN 1 ELSE 0
        d1      == [d EXCEPT !.model = ad_update_model(d.model, out_bit),
                             !.out_bit = out_bit]
        d2      == IF out_bit = 1
                   THEN [d1 EXCEPT !.low = Add32(d.low, mid)]
                   ELSE [d1 EXCEPT !.high = Sub32(Add32(d.low, mid), U32(1))]
    IN  ad_dec_renorm(src, d2)

\* decode_next_bit of arith_decode.c; the bit it returns is left in out_bit
ad_decode_next_bit(src, d) ==
    IF d.model.fail \/ d.stream.fail THEN d
    ELSE
    LET mid     == calc_mid(d.low, d.high, d.model.prob)
        out_bit == IF ~Lt32(d.value, Add32(d.low, mid)) THEN 1 ELSE 0
        d1      == [d EXCEPT !.model = ad_update_model(d.model, out_bit),
                             !.out_bit = out_bit]
        d2      == IF out_bit = 1
                   THEN [d1 EXCEPT !.low = Add32(d.low, mid)]
                   ELSE [d1 EXCEPT !.high = Sub32(Add32(d.low, mid), U32(1))]
    IN  ad_dec_renorm(src, d2)

(***************************************************************************)
(* lza_compress.c: the EMITTER and the packet field encoders               *)
(***************************************************************************)
LZA_LENGTH_TAIL_BITS == 11

MAX_LZA_SIZE == 17 + 2 ^ LZA_LENGTH_TAIL_BITS

RECURSIVE ShlBy32(_, _)
\* (a << n) modulo 2^32, 0 <= n < 32
ShlBy32(a, n) == IF n = 0 \/ a = <<>> THEN a ELSE ShlBy32(Shl32(a), n - 1)

RECURSIVE BitOr(_, _, _)
\* x | y on n-bit values
BitOr(x, y, n) ==
    IF n = 0 THEN 0
    ELSE (IF x % 2 = 1 \/ y % 2 = 1 THEN 1 ELSE 0)
         + 2 * BitOr(x \div 2, y \div 2, n - 1)

Or32(a, b) == <<BitOr(a[1], b[1], 16), BitOr(a[2], b[2], 16)>>

\* a & ~(1 << i)
ClearBit32(a, i) ==
    IF BitOf(a, i) = 0 THEN a
    ELSE IF i < 16 THEN <<a[1], a[2] - 2 ^ i>>
    ELSE <<a[1] - 2 ^ (i - 16), a[2]>>

\* EMITTER: buf holds the bytes stored so far, size the room from begin to end
init_emitter(size) == [buf |-> <<>>, size |-> size, data |-> 256, fail |-> FALSE]

\* a byte with its eight bits in the opposite order
Rev8(byte) ==
    LET bits == [k \in 0..7 |-> (byte \div (2 ^ k)) % 2]
    IN  bits[0] * 128 + bits[1] * 64 + bits[2] * 32 + bits[3] * 16
        + bits[4] * 8 + bits[5] * 4 + bits[6] * 2 + bits[7]

\* one pass of the loop of emit_bits that stores the first bit of a byte
\* at the top
lz_emit_bit_msb(em, bit) ==
    IF em.fail THEN em
    ELSE LET d == (em.data \div 2) + bit * 256
         IN  IF d % 2 = 1
             THEN IF Len(em.buf) < em.size
                  THEN [em EXCEPT !.buf = Append(em.buf, Rev8(d \div 2)), !.data = 256]
                  ELSE [em EXCEPT !.fail = TRUE]
             ELSE [em EXCEPT !.data = d]

\* one pass of the loop of emit_bits
lz_emit_bit(em, bit) ==
    IF em.fail THEN em
    ELSE LET d == (em.data \div 2) + bit * 256
         IN  IF d % 2 = 1
             THEN IF Len(em.buf) < em.size
                  THEN [em EXCEPT !.buf = Append(em.buf, d \div 2), !.data = 256]
                  ELSE [em EXCEPT !.fail = TRUE]
             ELSE [em EXCEPT !.data = d]

RECURSIVE lz_emit_loop(_, _, _)
lz_emit_loop(em, value, bits) ==
    LET em1 == lz_emit_bit(em, BitOf(value, bits - 1))
    IN  IF bits = 1 \/ em1.fail THEN em1 ELSE lz_emit_loop(em1, value, bits - 1)

\* emit_bits: value is a size_t whose bits 32 and above are zero
lz_emit_bits(em, value, bits) ==
    IF bits = 0 THEN [em EXCEPT !.fail = TRUE] ELSE lz_emit_loop(em, value, bits)

\* emit_tail: the emitter after it; the size it returns is Len(buf)
lz_emit_tail(em) == lz_emit_bits(em, U32(((em.data \div 256) % 2) * 127), 7)

emit_size(em, size) ==
    IF size < 2 \/ size > 273 THEN [em EXCEPT !.fail = TRUE]
    ELSE IF size <= 9
    THEN lz_emit_bits(lz_emit_bits(em, U32(0), 1), U32(size - 2), 3)
    ELSE IF size <= 17
    THEN lz_emit_bits(lz_emit_bits(em, U32(2), 2), U32(size - 10), 3)
    ELSE lz_emit_bits(lz_emit_bits(em, U32(3), 2), U32(size - 18), 8)

\* emit_offset on a 64-bit size_t offset below 2^32; (uint32_t)bits_m1 <<
\* bits_m1 is computed in 32 bits
emit_offset(em, offset) ==
    IF offset = U32(0) THEN [em EXCEPT !.fail = TRUE]
    ELSE LET o == Sub32(offset, U32(1))
         IN  IF Lt32(o, U32(2)) THEN lz_emit_bits(em, o, 6)
             ELSE LET bits_m1 == TopBit32(o)
                      o1      == ClearBit32(o, bits_m1)
                      o2      == Or32(o1, ShlBy32(U32(bits_m1), bits_m1))
                  IN  lz_emit_bits(em, o2, bits_m1 + 5)

(***************************************************************************)
(* lza_decompress.c: the packet field decoders                             *)
(***************************************************************************)
\* decode_length: the stream after the call and the length
decode_length(mem, s) ==
    LET r1    == get_one_bit(mem, s)
        r2    == get_one_bit(mem, r1.s)
        long  == r1.v = 1 /\ r2.v = 1
        s1    == IF r1.v = 1 THEN r2.s ELSE r1.s
        value == IF r1.v = 0 THEN 2 ELSE IF r2.v = 0 THEN 10 ELSE 18
        r3    == get_bits(mem, s1, IF long THEN 8 ELSE 3)
    IN  [s |-> r3.s, v |-> value + ToInt(r3.v)]

\* decode_distance: the stream after the call and the uint32_t distance
decode_distance(mem, s) ==
    LET r    == get_bits(mem, s, 6)
        data == ToInt(r.v)
        bits == (data \div 2) - 1
        r2   == get_bits(mem, r.s, bits)
    IN  IF data < 2 THEN [s |-> r.s, v |-> U32(data + 1)]
        ELSE [s |-> r2.s,
              v |-> Add32(Add32(ShlBy32(U32((data % 2) + 2), bits), r2.v), U32(1))]

(***************************************************************************)
(* find_repeats.c: the match finder.  Positions, lengths and distances are *)
(* below 2^31 and are plain integers; buf[i] of the source is Byte(buf, i).*)
(* A record field bad = TRUE marks a failed assert() or a read outside the *)
(* input buffer.                                                           *)
(***************************************************************************)
MAX_OFFSETS == 15

\* ~0U; it is only compared for equality with chunk ids, pair indices and
\* positions, all of which are below it, and incremented once (last_pos + 1
\* wraps to 0)
INVALID_ID == -1

Byte(buf, i) == buf[i + 1]

SetMin(S) == CHOOSE x \in S : \A y \in S : x <= y

\* loops over the input are evaluated a block of positions at a time
ScanBlock == 2 ^ 9

estimate_chunks(file_size) ==
    LET est_chunk_count == (file_size \div MAX_OFFSETS) * 2
    IN  IF est_chunk_count < 65536 THEN 65536 ELSE est_chunk_count

\* pair_ids is kept in rows of 2^8 indices and chunks in rows of 2^8 chunks
MapRow == 2 ^ 8

\* OFFSET_MAP after memset(0xFF): pair_ids and chunks hold only the entries
\* written since; every other pair id, offset and next_id is INVALID_ID
init_offset_map(num_chunks) ==
    [pair_ids |-> [h \in 0..(MapRow - 1) |-> <<>>], chunks |-> <<>>,
     num_chunks |-> num_chunks,
     first_free_chunk_id |-> 0, last_pair_index |-> INVALID_ID,
     last_pos |-> INVALID_ID, bad |-> FALSE]

\* map->pair_ids[idx]
PairId(map, idx) ==
    LET row == map.pair_ids[idx \div MapRow]
    IN  IF (idx % MapRow) \in DOMAIN row THEN row[idx % MapRow] ELSE INVALID_ID

\* map->chunks[chunk_id], for a chunk that was written
ChunkAt(map, chunk_id) == map.chunks[(chunk_id \div MapRow) + 1][(chunk_id % MapRow) + 1]

\* chunks with one more chunk written, at the id after the last
AddChunk(chunks, chunk) ==
    IF chunks = <<>> \/ Len(chunks[Len(chunks)]) = MapRow
    THEN Append(chunks, <<chunk>>)
    ELSE [chunks EXCEPT ![Len(chunks)] = Append(@, chunk)]

get_map_idx(buf, pos) == Byte(buf, pos) + 256 * Byte(buf, pos + 1)

\* set_offset that fills the slots of a chunk from slot 0 upwards
set_offset_ascending(buf, pos, map) ==
    LET idx      == get_map_idx(buf, pos) % 65536
        chunk_id == PairId(map, idx)
        m1       == [map EXCEPT !.last_pos = pos]
        m2       == [m1 EXCEPT !.last_pair_index = idx]
        new_id   == map.first_free_chunk_id
    IN  IF map.bad THEN map
        ELSE IF pos # map.last_pos + 1 THEN [map EXCEPT !.bad = TRUE]
        ELSE IF map.last_pair_index = idx
        THEN [m1 EXCEPT !.bad = Byte(buf, pos) # Byte(buf, pos + 1)]
        ELSE IF chunk_id # INVALID_ID
                /\ ChunkAt(map, chunk_id).offset[MAX_OFFSETS] = INVALID_ID
        THEN LET chunk == ChunkAt(map, chunk_id)
                 free  == {k \in 1..MAX_OFFSETS : chunk.offset[k] = INVALID_ID}
             IN  [m2 EXCEPT
                    !.chunks[(chunk_id \div MapRow) + 1][(chunk_id % MapRow) + 1]
                        .offset[SetMin(free)] = pos]
        ELSE IF new_id >= map.num_chunks THEN [m2 EXCEPT !.bad = TRUE]
        ELSE [m2 EXCEPT
                !.chunks = AddChunk(map.chunks,
                    [offset  |-> [k \in 1..MAX_OFFSETS |->
                                     IF k = 1 THEN pos ELSE INVALID_ID],
                     next_id |-> chunk_id]),
                !.first_free_chunk_id = new_id + 1,
                !.pair_ids[idx \div MapRow] = ((idx % MapRow) :> new_id) @@ @]

set_offset(buf, pos, map) ==
    LET idx      == get_map_idx(buf, pos) % 65536
        chunk_id == PairId(map, idx)
        m1       == [map EXCEPT !.last_pos = pos]
        m2       == [m1 EXCEPT !.last_pair_index = idx]
        new_id   == map.first_free_chunk_id
    IN  IF map.bad THEN map
        ELSE IF pos # map.last_pos + 1 THEN [map EXCEPT !.bad = TRUE]
        ELSE IF map.last_pair_index = idx
        THEN [m1 EXCEPT !.bad = Byte(buf, pos) # Byte(buf, pos + 1)]
        ELSE IF chunk_id # INVALID_ID
                /\ ChunkAt(map, chunk_id).offset[1] = INVALID_ID
        THEN LET chunk == ChunkAt(map, chunk_id)
                 used  == {k \in 2..MAX_OFFSETS : chunk.offset[k] # INVALID_ID}
                 i     == IF used = {} THEN MAX_OFFSETS ELSE SetMin(used) - 1
             IN  [m2 EXCEPT
                    !.chunks[(chunk_id \div MapRow) + 1][(chunk_id % MapRow) + 1].offset[i]
                        = pos,
                    !.bad = used # {} /\ pos <= chunk.offset[i + 1]]
        ELSE IF new_id >= map.num_chunks THEN [m2 EXCEPT !.bad = TRUE]
        ELSE [m2 EXCEPT
                !.chunks = AddChunk(map.chunks,
                    [offset  |-> [k \in 1..MAX_OFFSETS |->
                                     IF k = MAX_OFFSETS THEN pos ELSE INVALID_ID],
                     next_id |-> chunk_id]),
                !.first_free_chunk_id = new_id + 1,
                !.pair_ids[idx \div MapRow] = ((idx % MapRow) :> new_id) @@ @]

\* update_last4 without the search for a duplicate
update_last4_nodedup(last_dist, distance) ==
    <<distance, last_dist[1], last_dist[2], last_dist[3]>>

\* last_dist[k] of the source is last_dist[k + 1]
update_last4(last_dist, distance) ==
    LET found == {k \in 0..2 : last_dist[k + 1] = distance}
        i     == IF found = {} THEN 3 ELSE SetMin(found)
    IN  [k \in 1..4 |-> IF k = 1 THEN distance
                        ELSE IF k - 1 <= i THEN last_dist[k - 1]
                        ELSE last_dist[k]]

RECURSIVE compare_from(_, _, _, _, _)
\* the while loop of compare from the given length on
compare_from(buf, left_pos, right_pos, length, end) ==
    IF length >= end THEN end
    ELSE LET hi   == IF length + ScanBlock < end THEN length + ScanBlock ELSE end
             stop == {l \in length..(hi - 1) :
                         Byte(buf, left_pos + l) # Byte(buf, right_pos + l)}
         IN  IF stop # {} THEN SetMin(stop)
             ELSE compare_from(buf, left_pos, right_pos, hi, end)

\* compare that does not stop at the first difference
compare_nostop(buf, left_pos, right_pos, size) ==
    IF size - right_pos > MAX_LZA_SIZE THEN MAX_LZA_SIZE ELSE size - right_pos

compare(buf, left_pos, right_pos, size) ==
    LET right_end == size - right_pos
        end       == IF right_end > MAX_LZA_SIZE THEN MAX_LZA_SIZE ELSE right_end
    IN  compare_from(buf, left_pos, right_pos, 2, end)

\* the two assertions of compare
compare_asserts(buf, left_pos, right_pos) ==
    /\ Byte(buf, left_pos) = Byte(buf, right_pos)
    /\ Byte(buf, left_pos + 1) = Byte(buf, right_pos + 1)

RECURSIVE TopBit(_)
\* 31 - count_leading_zeroes(n), n > 0
TopBit(n) == IF n < 2 THEN 0 ELSE 1 + TopBit(n \div 2)

length_bits(length) ==
    IF length <= 9 THEN 4 ELSE IF length <= 17 THEN 5 ELSE 2 + LZA_LENGTH_TAIL_BITS

calc_match_score(occ) ==
    LET lit_bits      == 9 * occ.length
        distance_bits == IF occ.distance < 2 THEN 6 ELSE 36 - (31 - TopBit(occ.distance))
    IN  lit_bits - (2 + length_bits(occ.length) + distance_bits)

calc_longrep_score(occ) ==
    LET lit_bits         == 9 * occ.length
        longrep_hdr_bits == IF occ.last < 2 THEN 4 ELSE 5
    IN  lit_bits - (longrep_hdr_bits + length_bits(occ.length))

\* calc_cond_longrep_score that gives a repeat of a last distance no score
calc_cond_longrep_zero(occ) == 0

calc_cond_longrep_score(occ) ==
    IF occ.last < 0 THEN 0 ELSE calc_longrep_score(occ)

RECURSIVE repeated_from(_, _, _, _)
\* the three loops of get_repeated_byte_length: they stop at the first
\* length with length = size - (pos + 1) or buf[pos + length] # buf[pos]
repeated_from(buf, pos, length, rest) ==
    IF length >= rest THEN rest
    ELSE LET hi   == IF length + ScanBlock < rest THEN length + ScanBlock ELSE rest
             stop == {l \in length..(hi - 1) : Byte(buf, pos + l) # Byte(buf, pos)}
         IN  IF stop # {} THEN SetMin(stop)
             ELSE repeated_from(buf, pos, hi, rest)

\* called with pos + 1 < size only (its assertion)
get_repeated_byte_length(buf, pos, size) ==
    repeated_from(buf, pos, 1, size - (pos + 1))

NoOccurrence == [distance |-> 0, length |-> 0, last |-> -1, bad |-> FALSE]

RECURSIVE last_dist_loop(_, _, _, _, _, _)
\* the for loop of find_occurrence_at_last_dist, last = 3 down to 0
last_dist_loop(buf, pos, size, last_dist, last, occurrence) ==
    IF last < 0 \/ occurrence.bad THEN occurrence
    ELSE LET distance == last_dist[last + 1]
             length   == compare(buf, pos - distance, pos, size)
         IN  IF distance = 0
             THEN last_dist_loop(buf, pos, size, last_dist, last - 1, occurrence)
             ELSE IF distance > pos \/ pos + 1 >= size
             THEN [occurrence EXCEPT !.bad = TRUE]
             ELSE IF Byte(buf, pos - distance) # Byte(buf, pos)
                     \/ Byte(buf, pos - distance + 1) # Byte(buf, pos + 1)
             THEN last_dist_loop(buf, pos, size, last_dist, last - 1, occurrence)
             ELSE IF length >= occurrence.length
             THEN last_dist_loop(buf, pos, size, last_dist, last - 1,
                     [occurrence EXCEPT !.distance = distance, !.length = length,
                                        !.last = last])
             ELSE last_dist_loop(buf, pos, size, last_dist, last - 1, occurrence)

find_occurrence_at_last_dist(buf, pos, size, last_dist) ==
    last_dist_loop(buf, pos, size, last_dist, 3, NoOccurrence)

check_trailing_rep(buf, pos, size, occ) ==
    LET left              == pos - occ.distance + occ.length
        right             == pos + occ.length
        bytes_after_match == size - right
        hit == {i \in 1..3 : /\ bytes_after_match > i
                             /\ Byte(buf, left + i) = Byte(buf, right + i)}
    IN  IF hit = {} THEN 0 ELSE SetMin(hit)

RECURSIVE chain_positions(_, _)
\* the positions the two loops of find_longest_occurrence visit, in order
chain_positions(map, chunk_id) ==
    IF chunk_id = INVALID_ID THEN <<>>
    ELSE LET chunk == ChunkAt(map, chunk_id)
         IN  SelectSeq(chunk.offset, LAMBDA o : o # INVALID_ID)
                \o chain_positions(map, chunk.next_id)

Occurrence(distance, length, last, bad) ==
    [distance |-> distance, length |-> length, last |-> last, bad |-> bad]

\* the occurrence at the shortened distance, its length compared again
recompare(buf, pos, size, distance, bad) ==
    Occurrence(distance, compare(buf, pos - distance, pos, size), -1,
               bad \/ ~compare_asserts(buf, pos - distance, pos))

\* "try to find shorter distance": the occurrence (length, distance) found
\* in the map, inside a span of repeated bytes of max_len bytes at old_pos
shorten(buf, pos, size, length, distance, bad, max_len) ==
    IF max_len > length
    THEN recompare(buf, pos, size,
                   IF max_len - length < distance
                   THEN distance - (max_len - length) ELSE 1,
                   bad)
    ELSE Occurrence(distance, length, -1, bad)

\* occ of the inner loop of find_longest_occurrence for one old_pos, from
\* the first compare to the search of the distance in last_dist
candidate_from(buf, pos, size, repeated_length, length, distance, bad) ==
    IF length <= repeated_length /\ distance > 1
    THEN shorten(buf, pos, size, length, distance, bad,
                 get_repeated_byte_length(buf, pos - distance, size))
    ELSE Occurrence(distance, length, -1, bad)

candidate(buf, pos, size, repeated_length, old_pos) ==
    candidate_from(buf, pos, size, repeated_length,
                   compare(buf, old_pos, pos, size), pos - old_pos,
                   ~compare_asserts(buf, old_pos, pos))

\* choose without the two limits on the distance of short matches
choose_nolimit(last_dist, best, occ, cur_score, cur_trailing_rep) ==
    LET skip == \/ \E k \in 0..3 : last_dist[k + 1] = occ.distance
                \/ IF cur_trailing_rep # 0
                   THEN \/ cur_score < best.score
                        \/ /\ best.trailing_rep # 0
                           /\ cur_trailing_rep > best.trailing_rep
                           /\ cur_score <= best.score
                   ELSE cur_score <= best.score
                \/ cur_score < 2
    IN  IF occ.bad THEN [best EXCEPT !.occurrence.bad = TRUE]
        ELSE IF skip THEN best
        ELSE [occurrence |-> occ, score |-> cur_score,
              trailing_rep |-> cur_trailing_rep]

\* the rest of the inner loop: whether occ replaces the best so far; best
\* holds occurrence, score and trailing_rep
choose(last_dist, best, occ, cur_score, cur_trailing_rep) ==
    LET skip == \/ \E k \in 0..3 : last_dist[k + 1] = occ.distance
                \/ IF cur_trailing_rep # 0
                   THEN \/ cur_score < best.score
                        \/ /\ best.trailing_rep # 0
                           /\ cur_trailing_rep > best.trailing_rep
                           /\ cur_score <= best.score
                   ELSE cur_score <= best.score
                \/ cur_score < 2
                \/ (occ.length = 3 /\ occ.distance > 2 ^ 11)
                \/ (occ.length = 4 /\ occ.distance > 2 ^ 13)
    IN  IF occ.bad THEN [best EXCEPT !.occurrence.bad = TRUE]
        ELSE IF skip THEN best
        ELSE [occurrence |-> occ, score |-> cur_score,
              trailing_rep |-> cur_trailing_rep]

consider_occ(buf, pos, size, last_dist, best, occ) ==
    IF occ.bad THEN [best EXCEPT !.occurrence.bad = TRUE]
    ELSE choose(last_dist, best, occ, calc_match_score(occ),
                check_trailing_rep(buf, pos, size, occ))

\* the body of the inner loop of find_longest_occurrence for one old_pos
consider(buf, pos, size, last_dist, repeated_length, best, old_pos) ==
    consider_occ(buf, pos, size, last_dist, best,
                 candidate(buf, pos, size, repeated_length, old_pos))

RECURSIVE consider_all(_, _, _, _, _, _, _, _)
consider_all(buf, pos, size, last_dist, repeated_length, best, olds, k) ==
    IF k > Len(olds) \/ best.occurrence.bad THEN best
    ELSE consider_all(buf, pos, size, last_dist, repeated_length,
            consider(buf, pos, size, last_dist, repeated_length, best, olds[k]),
            olds, k + 1)

\* find_longest_occurrence after find_occurrence_at_last_dist
longest_from(buf, pos, size, last_dist, map, occurrence) ==
    consider_all(buf, pos, size, last_dist,
        get_repeated_byte_length(buf, pos, size),
        [occurrence   |-> occurrence,
         score        |-> calc_cond_longrep_score(occurrence),
         trailing_rep |-> IF occurrence.distance # 0
                          THEN check_trailing_rep(buf, pos, size, occurrence)
                          ELSE 0],
        chain_positions(map, PairId(map, get_map_idx(buf, pos))), 1).occurrence

find_longest_occurrence(buf, pos, size, last_dist, map) ==
    longest_from(buf, pos, size, last_dist, map,
                 find_occurrence_at_last_dist(buf, pos, size, last_dist))

\* the two callbacks, as the calls they make
LiteralCall(pos, size) == [what |-> "literal", pos |-> pos, size |-> size]

MatchCall(pos, occ) ==
    [what |-> "match", pos |-> pos, length |-> occ.length,
     distance |-> occ.distance, last |-> occ.last]

FlushLiteral(calls, pos, num_literal) ==
    IF num_literal > 0 THEN Append(calls, LiteralCall(pos - num_literal, num_literal))
    ELSE calls

RECURSIVE report_loop(_, _, _, _, _, _)
\* the loop of report_literal_or_single_match and its last report_literal
report_loop(buf, pos, end, last_dist, num_literal, calls) ==
    IF pos >= end THEN FlushLiteral(calls, pos, num_literal)
    ELSE IF last_dist # 0 /\ last_dist <= pos
            /\ Byte(buf, pos) = Byte(buf, pos - last_dist)
    THEN report_loop(buf, pos + 1, end, last_dist, 0,
            Append(FlushLiteral(calls, pos, num_literal),
                   MatchCall(pos, [distance |-> last_dist, length |-> 1, last |-> 0])))
    ELSE report_loop(buf, pos + 1, end, last_dist, num_literal + 1, calls)

\* report_literal_or_single_match that reports the whole run as literals
report_literal_only(buf, pos, size, last_dist) ==
    IF size > 0 THEN <<LiteralCall(pos, size)>> ELSE <<>>

\* the calls report_literal_or_single_match makes; a last_dist above pos
\* would read before the buffer (see report_reads)
report_literal_or_single_match(buf, pos, size, last_dist) ==
    report_loop(buf, pos, pos + size, last_dist, 0, <<>>)

\* buf[pos - last_dist] of report_literal_or_single_match is inside the buffer
report_reads(pos, num_literal, last_dist) ==
    num_literal = 0 \/ last_dist <= pos - num_literal

RECURSIVE set_offsets(_, _, _, _, _)
\* the loop that follows report_match: set_offset at pos, pos + 1, ... for
\* length positions, in this order (the first half, then the second)
set_offsets(buf, size, pos, length, map) ==
    IF length = 0 \/ map.bad THEN map
    ELSE IF length = 1
    THEN IF pos + 1 < size THEN set_offset(buf, pos, map) ELSE map
    ELSE set_offsets(buf, size, pos + length \div 2, length - length \div 2,
            set_offsets(buf, size, pos, length \div 2, map))

\* find_repeats that reports its first byte before it allocates the map
fr_start_report_first(buf, alloc) ==
    LET size == Len(buf)
    IN  [pc |-> IF size = 0 \/ ~alloc THEN "done" ELSE "loop",
         ret |-> IF size = 0 THEN 0 ELSE IF alloc THEN 0 ELSE 1,
         buf |-> buf, size |-> size,
         map |-> init_offset_map(estimate_chunks(size)),
         pos |-> 0, num_literal |-> 0, last_dist |-> <<0, 0, 0, 0>>,
         calls |-> IF size = 0 \/ alloc THEN <<>> ELSE <<LiteralCall(0, 1)>>]

\* find_repeats up to its loop: alloc tells whether malloc succeeded
fr_start(buf, alloc) ==
    LET size == Len(buf)
    IN  [pc |-> IF size = 0 \/ ~alloc THEN "done" ELSE "loop",
         ret |-> IF size = 0 THEN 0 ELSE IF alloc THEN 0 ELSE 1,
         buf |-> buf, size |-> size,
         map |-> init_offset_map(estimate_chunks(size)),
         pos |-> 0, num_literal |-> 0, last_dist |-> <<0, 0, 0, 0>>,
         calls |-> <<>>]

\* the pass from "if (num_literal)" on: the pending literals, report_match,
\* update_last4 and the loop of set_offset
iterate_report(f, pos, num_literal, map, occurrence) ==
    IF map.bad \/ occurrence.distance <= 0
       \/ ~report_reads(pos, num_literal, f.last_dist[1])
    THEN [f EXCEPT !.pc = "abort"]
    ELSE [f EXCEPT
            !.map = set_offsets(f.buf, f.size, pos, occurrence.length, map),
            !.calls = (f.calls
                       \o report_literal_or_single_match(f.buf, pos - num_literal,
                              num_literal, f.last_dist[1]))
                      \o <<MatchCall(pos, occurrence)>>,
            !.num_literal = 0,
            !.last_dist = update_last4(f.last_dist, occurrence.distance),
            !.pos = pos + occurrence.length]

\* "see if we can find a better match", given the repeat at pos + 1
iterate_better(f, occurrence, next_occurrence) ==
    IF next_occurrence.bad THEN [f EXCEPT !.pc = "abort"]
    ELSE IF next_occurrence.last >= 0
            /\ calc_longrep_score(next_occurrence) >= calc_match_score(occurrence)
    THEN iterate_report(f, f.pos + 1, f.num_literal + 1,
                        set_offset(f.buf, f.pos, f.map), next_occurrence)
    ELSE iterate_report(f, f.pos, f.num_literal, f.map, occurrence)

\* the pass after find_longest_occurrence
iterate_from(f, occurrence) ==
    IF occurrence.bad THEN [f EXCEPT !.pc = "abort"]
    ELSE IF occurrence.length = 0
    THEN [f EXCEPT !.map = set_offset(f.buf, f.pos, f.map), !.pos = f.pos + 1,
                   !.num_literal = f.num_literal + 1]
    ELSE IF occurrence.last < 0 /\ f.pos + 2 < f.size
    THEN iterate_better(f, occurrence,
            find_occurrence_at_last_dist(f.buf, f.pos + 1, f.size, f.last_dist))
    ELSE iterate_report(f, f.pos, f.num_literal, f.map, occurrence)

\* a failed assertion in set_offset ends the run
after_iterate(f) == IF f.map.bad THEN [f EXCEPT !.pc = "abort"] ELSE f

\* one pass of the while loop of find_repeats; calls are the callbacks made
fr_iterate(f) ==
    after_iterate(iterate_from(f,
        find_longest_occurrence(f.buf, f.pos, f.size, f.last_dist, f.map)))

\* fr_finish without the last byte of the input
fr_finish_nolast(f) ==
    LET lits == IF f.num_literal > 0
                THEN report_literal_or_single_match(f.buf, f.pos - f.num_literal,
                        f.num_literal, f.last_dist[1])
                ELSE <<>>
    IN  [f EXCEPT !.num_literal = 0, !.calls = f.calls \o lits,
                  !.pc = "done", !.ret = 0]

\* find_repeats after its loop: the last byte and the pending literals
fr_finish(f) ==
    LET tail        == f.pos < f.size
        num_literal == IF tail THEN f.num_literal + 1 ELSE f.num_literal
        pos         == IF tail THEN f.pos + 1 ELSE f.pos
        lits        == IF num_literal > 0
                       THEN report_literal_or_single_match(f.buf, pos - num_literal,
                                num_literal, f.last_dist[1])
                       ELSE <<>>
    IN  IF (tail /\ f.pos + 1 # f.size)
           \/ ~report_reads(pos, num_literal, f.last_dist[1])
        THEN [f EXCEPT !.pc = "abort"]
        ELSE [f EXCEPT !.pos = pos, !.num_literal = 0,
                       !.calls = f.calls \o lits, !.pc = "done", !.ret = 0]

(***************************************************************************)
(* lza_compress.c: COMPRESS, the callbacks of find_repeats and compress    *)
(***************************************************************************)
TYPE_LIT == 0
TYPE_MATCH == 2
TYPE_SHORTREP == 12
TYPE_LONGREP0 == 13
TYPE_LONGREP1 == 14
TYPE_LONGREP2 == 30
TYPE_LONGREP3 == 31

\* COMPRESS: the four emitters, a quarter of the buffer each; bad marks a
\* failed assertion of a callback; packets lists the types emit_type has
\* counted in sizes.stats_*, in order
\* COMPRESSED_SIZES after memset
ZeroSizes ==
    [compressed |-> 0, total |-> 0,
     types |-> 0, literals |-> 0, sizes |-> 0, offsets |-> 0,
     stats_lit |-> 0, stats_match |-> 0, stats_shortrep |-> 0,
     stats_longrep |-> <<0, 0, 0, 0>>]

init_compress(size) ==
    [type_emitter    |-> init_emitter(size \div 4),
     literal_emitter |-> init_emitter(size \div 4),
     size_emitter    |-> init_emitter(size \div 4),
     offset_emitter  |-> init_emitter(size \div 4),
     sizes           |-> ZeroSizes,
     packets         |-> <<>>,
     bad             |-> FALSE]

compress_failed(c) ==
    \/ c.bad
    \/ c.type_emitter.fail \/ c.literal_emitter.fail
    \/ c.size_emitter.fail \/ c.offset_emitter.fail

type_size(type) ==
    IF type = TYPE_MATCH THEN 2
    ELSE IF type \in {TYPE_SHORTREP, TYPE_LONGREP0, TYPE_LONGREP1} THEN 4
    ELSE IF type \in {TYPE_LONGREP2, TYPE_LONGREP3} THEN 5
    ELSE 1

\* the counter emit_type increments
count_type(sizes, type) ==
    IF type = TYPE_MATCH THEN [sizes EXCEPT !.stats_match = @ + 1]
    ELSE IF type = TYPE_SHORTREP THEN [sizes EXCEPT !.stats_shortrep = @ + 1]
    ELSE IF type = TYPE_LONGREP0 THEN [sizes EXCEPT !.stats_longrep[1] = @ + 1]
    ELSE IF type = TYPE_LONGREP1 THEN [sizes EXCEPT !.stats_longrep[2] = @ + 1]
    ELSE IF type = TYPE_LONGREP2 THEN [sizes EXCEPT !.stats_longrep[3] = @ + 1]
    ELSE IF type = TYPE_LONGREP3 THEN [sizes EXCEPT !.stats_longrep[4] = @ + 1]
    ELSE [sizes EXCEPT !.stats_lit = @ + 1]

emit_type(c, type) ==
    [c EXCEPT !.type_emitter = lz_emit_bits(c.type_emitter, U32(type), type_size(type)),
              !.sizes = count_type(c.sizes, type),
              !.packets = Append(c.packets, type)]

RECURSIVE report_literal(_, _, _, _)
\* the do-while of report_literal: a LIT type and the eight bits of a byte
report_literal(c, buf, pos, size) ==
    IF size = 0 \/ compress_failed(c) THEN c
    ELSE report_literal(
            [emit_type(c, TYPE_LIT) EXCEPT
                !.literal_emitter =
                    lz_emit_bits(c.literal_emitter, U32(Byte(buf, pos)), 8)],
            buf, pos + 1, size - 1)

\* the switch of report_match
longrep_type(last) ==
    IF last = 0 THEN TYPE_LONGREP3 ELSE IF last = 1 THEN TYPE_LONGREP2
    ELSE IF last = 2 THEN TYPE_LONGREP1 ELSE TYPE_LONGREP0

\* occurrence.offset of report_match is the distance of the call
report_match(c, call) ==
    IF compress_failed(c) THEN c
    ELSE IF call.length > 273 THEN [c EXCEPT !.bad = TRUE]
    ELSE IF call.last < 0
    THEN IF call.length <= 1 THEN [c EXCEPT !.bad = TRUE]
         ELSE [emit_type(c, TYPE_MATCH) EXCEPT
                 !.size_emitter   = emit_size(c.size_emitter, call.length),
                 !.offset_emitter = emit_offset(c.offset_emitter, U32(call.distance))]
    ELSE IF call.length = 1
    THEN IF call.last # 3 THEN [c EXCEPT !.bad = TRUE]
         ELSE emit_type(c, TYPE_SHORTREP)
    ELSE IF call.last \notin 0..3 THEN [c EXCEPT !.bad = TRUE]
    ELSE [emit_type(c, longrep_type(call.last)) EXCEPT
            !.size_emitter = emit_size(c.size_emitter, call.length)]

RECURSIVE report_calls(_, _, _, _)
\* the callbacks find_repeats made, from the k-th on, applied in order
report_calls(c, buf, calls, k) ==
    IF k > Len(calls) \/ compress_failed(c) THEN c
    ELSE report_calls(
            IF calls[k].what = "literal"
            THEN report_literal(c, buf, calls[k].pos, calls[k].size)
            ELSE report_match(c, calls[k]),
            buf, calls, k + 1)

\* the sizes finish_compress stores, from the four tails
finish_sizes(sizes, types, literals, size_bytes, offsets) ==
    [sizes EXCEPT !.types = types, !.literals = literals,
                  !.sizes = size_bytes, !.offsets = offsets,
                  !.total = types + literals + size_bytes + offsets]

\* finish_compress: the four tails
finish_compress(c) ==
    [c EXCEPT !.type_emitter    = lz_emit_tail(c.type_emitter),
              !.literal_emitter = lz_emit_tail(c.literal_emitter),
              !.size_emitter    = lz_emit_tail(c.size_emitter),
              !.offset_emitter  = lz_emit_tail(c.offset_emitter),
              !.sizes = finish_sizes(c.sizes,
                            Len(lz_emit_tail(c.type_emitter).buf),
                            Len(lz_emit_tail(c.literal_emitter).buf),
                            Len(lz_emit_tail(c.size_emitter).buf),
                            Len(lz_emit_tail(c.offset_emitter).buf))]

\* the streams moved together at the start of the buffer
lz_streams(c) ==
    ((c.type_emitter.buf \o c.literal_emitter.buf) \o c.size_emitter.buf)
        \o c.offset_emitter.buf

\* emit_header: the emitter after the four sizes and the tail
emit_header(dest_size, types, literals, sizes, offsets) ==
    lz_emit_tail(
        emit_offset(
            emit_offset(
                emit_offset(
                    emit_offset(init_emitter(dest_size), U32(types)),
                    U32(literals)),
                U32(sizes)),
            U32(offsets)))

estimate_compress_size(src_size) ==
    (IF src_size < 4096 THEN 4096 ELSE src_size) * 4

(***************************************************************************)
(* lza_decompress.c: lz_decompress.  Addresses are offsets from input, the *)
(* start of the scratch; mem is the scratch and the bytes after it.       *)
(***************************************************************************)
LZS_NUM_STREAMS == 5

\* Addresses saturate here: every address above the scratch is outside it
AddrMax == 2 ^ 16

AddrAdd(a, size) ==
    IF size[1] > 0 \/ a + size[2] > AddrMax THEN AddrMax ELSE a + size[2]

\* init_bit_stream with a uint32_t size
init_bit_stream32(buf, size) ==
    [buf |-> buf, end |-> AddrAdd(buf, size), data |-> 0, fail |-> size = U32(0)]

RECURSIVE read_sizes(_, _, _, _)
read_sizes_next(mem, r, n, sizes) == read_sizes(mem, r.s, n - 1, Append(sizes, r.v))

\* "load sizes of each stream": n more decode_distance calls on stream[0]
read_sizes(mem, s, n, sizes) ==
    IF n = 0 THEN [s |-> s, sizes |-> sizes]
    ELSE read_sizes_next(mem, decode_distance(mem, s), n, sizes)

RECURSIVE prepare_streams(_, _, _)
\* "prepare input streams": the streams from the k-th on, starting at input
prepare_streams(input, sizes, k) ==
    IF k > Len(sizes) THEN <<>>
    ELSE <<init_bit_stream32(input, sizes[k])>>
            \o prepare_streams(AddrAdd(input, sizes[k]), sizes, k + 1)

\* lz_decompress up to its loop
lzd_streams(hdr) == prepare_streams(hdr.s.buf, hdr.sizes, 1)

lzd_start(hdr, dest_size, uninit) ==
    [stream |-> lzd_streams(hdr), uninit |-> uninit,
     last_dist |-> <<U32(0), U32(0), U32(0), U32(0)>>,
     distance |-> U32(0), matches |-> 0,
     dest |-> <<>>, dest_size |-> dest_size, prev_lit |-> 0, bad |-> FALSE]

\* "put distance on the list of last distances and deduplicate the list"
lzd_update(last_dist, distance) ==
    LET found == {k \in 0..2 : last_dist[k + 1] = distance}
        i     == IF found = {} THEN 3 ELSE SetMin(found)
    IN  [k \in 1..4 |-> IF k = 1 THEN distance
                        ELSE IF k - 1 <= i THEN last_dist[k - 1]
                        ELSE last_dist[k]]

\* the copy loop: length bytes from distance back, each after the one
\* before; uninit is what a byte not yet written reads as (distance 0)
lzd_copy_bytes(dest, distance, length, uninit) ==
    dest \o [i \in 1..length |->
                IF distance = 0 THEN uninit
                ELSE dest[Len(dest) - distance + ((i - 1) % distance) + 1]]

\* a match packet after its distance and length are known
lzd_match(d, distance, length, uninit) ==
    IF Len(d.dest) + length > d.dest_size \/ Lt32(U32(Len(d.dest)), distance)
    THEN [d EXCEPT !.last_dist = lzd_update(d.last_dist, distance),
                   !.distance = distance, !.matches = d.matches + 1,
                   !.bad = TRUE]
    ELSE [d EXCEPT !.last_dist = lzd_update(d.last_dist, distance),
                   !.distance = distance, !.matches = d.matches + 1,
                   !.dest = lzd_copy_bytes(d.dest, ToInt(distance), length, uninit)]

\* MATCH: the length, then the distance
lzd_match_dist(d, rl, rd, uninit) ==
    lzd_match([d EXCEPT !.stream[4] = rl.s, !.stream[5] = rd.s], rd.v, rl.v, uninit)

\* LONGREP*: the distance at last_dist[data], then the length
lzd_longrep_len(d, data, rl, uninit) ==
    lzd_match([d EXCEPT !.stream[4] = rl.s], d.last_dist[data + 1], rl.v, uninit)

\* the index into last_dist that the LONGREP* branch computes from the two
\* bits after "11" and, when they leave data > 1, one more bit
lzd_longrep_index(data, bit) == IF data - 1 > 1 THEN data - 1 + bit ELSE data - 1

\* LONGREP* with data > 1 after "--data": one more type bit
lzd_longrep_bit(mem, d, data, r, uninit) ==
    lzd_longrep_len([d EXCEPT !.stream[1] = r.s], lzd_longrep_index(data, r.v),
                    decode_length(mem, d.stream[4]), uninit)

\* *REP after its two type bits
lzd_rep(mem, d, r, uninit) ==
    IF ToInt(r.v) = 0
    THEN lzd_match([d EXCEPT !.stream[1] = r.s], d.last_dist[1], 1, uninit)
    ELSE IF ToInt(r.v) - 1 > 1
    THEN lzd_longrep_bit(mem, [d EXCEPT !.stream[1] = r.s], ToInt(r.v),
                         get_one_bit(mem, r.s), uninit)
    ELSE lzd_longrep_len([d EXCEPT !.stream[1] = r.s], lzd_longrep_index(ToInt(r.v), 0),
                         decode_length(mem, d.stream[4]), uninit)

\* LIT: the top bit from the LITERAL_MSB stream, seven bits from LITERAL
lzd_literal_bits(d, rm, r7) ==
    [d EXCEPT !.stream[2] = rm.s, !.stream[3] = r7.s,
              !.dest = Append(d.dest,
                  ((rm.v * 128 + (d.prev_lit \div 128) * 128) % 256) + ToInt(r7.v)),
              !.prev_lit =
                  ((rm.v * 128 + (d.prev_lit \div 128) * 128) % 256) + ToInt(r7.v)]

\* a packet after its second type bit
lzd_type2(mem, d, r, uninit) ==
    IF r.v = 1
    THEN lzd_rep(mem, d, get_bits(mem, r.s, 2), uninit)
    ELSE lzd_match_dist([d EXCEPT !.stream[1] = r.s],
                        decode_length(mem, d.stream[4]),
                        decode_distance(mem, d.stream[5]), uninit)

\* a packet after its first type bit
lzd_type1(mem, d, r, uninit) ==
    IF r.v = 1
    THEN lzd_type2(mem, d, get_one_bit(mem, r.s), uninit)
    ELSE lzd_literal_bits([d EXCEPT !.stream[1] = r.s],
                          get_one_bit(mem, d.stream[2]),
                          get_bits(mem, d.stream[3], 7))

\* one pass of the do-while of lz_decompress
lzd_packet(mem, d, uninit) ==
    lzd_type1(mem, d, get_one_bit(mem, d.stream[1]), uninit)

\* a stream has taken a byte from outside the scratch
lzd_outside(mem, before, after) ==
    \E k \in 1..LZS_NUM_STREAMS :
        after[k].buf > before[k].buf /\ after[k].buf > Len(mem)

(***************************************************************************)
(* Bit I/O specification: bits written with emit_bit / emit_bits, then     *)
(* emit_tail, then a reader on exactly the emitted bytes.  The same bits   *)
(* go to an emitter of lza_compress.c, with its emit_bits and emit_tail.   *)
(***************************************************************************)
MaxBits == 9
MaxExtraReads == 3
MaxEmitWidth == 3

BioBufSize == (MaxBits + 7) \div 8 + 1

InitBio ==
    /\ bio = [pc |-> "emit", emitter |-> init_bit_emitter(BioBufSize),
              lz_emitter |-> init_emitter(BioBufSize),
              written |-> <<>>, stream |-> init_bit_stream(0, 1), got |-> <<>>]
    /\ ar = Idle /\ fld = Idle /\ fr = Idle /\ lz = Idle

BioEmitBit ==
    /\ bio.pc = "emit"
    /\ Len(bio.written) < MaxBits
    /\ \E b \in 0..1 :
          bio' = [bio EXCEPT !.emitter = be_emit_bit(bio.emitter, b),
                             !.lz_emitter = lz_emit_bits(bio.lz_emitter, U32(b), 1),
                             !.written = Append(bio.written, b)]
    /\ UNCHANGED <<ar, fld, fr, lz>>

BioEmitBits ==
    /\ bio.pc = "emit"
    /\ \E n \in 2..MaxEmitWidth : \E v \in 0..(2 ^ n - 1) :
          /\ Len(bio.written) + n <= MaxBits
          /\ bio' = [bio EXCEPT
                !.emitter = be_emit_bits(bio.emitter, v, n),
                !.lz_emitter = lz_emit_bits(bio.lz_emitter, U32(v), n),
                !.written = bio.written \o
                    [k \in 1..n |-> (v \div (2 ^ (n - k))) % 2]]
    /\ UNCHANGED <<ar, fld, fr, lz>>

BioEmitTail ==
    /\ bio.pc = "emit"
    /\ bio' = [bio EXCEPT !.emitter = be_emit_tail(bio.emitter),
                          !.lz_emitter = lz_emit_tail(bio.lz_emitter),
                          !.pc = "tail"]
    /\ UNCHANGED <<ar, fld, fr, lz>>

BioInitStream ==
    /\ bio.pc = "tail"
    /\ Len(bio.emitter.out) > 0
    /\ bio' = [bio EXCEPT !.stream = init_bit_stream(0, Len(bio.emitter.out)),
                          !.pc = "read"]
    /\ UNCHANGED <<ar, fld, fr, lz>>

BioGetOneBit ==
    /\ bio.pc = "read"
    /\ Len(bio.got) < Len(bio.written) + MaxExtraReads
    /\ LET r == get_one_bit(bio.emitter.out, bio.stream)
       IN  bio' = [bio EXCEPT !.stream = r.s, !.got = Append(bio.got, r.v)]
    /\ UNCHANGED <<ar, fld, fr, lz>>

NextBio ==
    \/ BioEmitBit
    \/ BioEmitBits
    \/ BioEmitTail
    \/ BioInitStream
    \/ BioGetOneBit

SpecBitIO == InitBio /\ [][NextBio]_vars

Min(a, b) == IF a < b THEN a ELSE b

\* C3: after N >= 1 bits b_1..b_N written with emit_bit / emit_bits and
\* flushed with emit_tail, the k-th single-bit read of a reader on the
\* emitted bytes returns b_k for k <= N and b_N for every k > N.
C3_BitRoundTrip ==
    (bio.pc = "read" /\ Len(bio.written) >= 1) =>
        \A k \in 1..Len(bio.got) :
            bio.got[k] = bio.written[Min(k, Len(bio.written))]

\* A partial last byte was padded, and reads went past the last written bit.
C3_Witness ==
    /\ bio.pc = "read"
    /\ Len(bio.written) % 8 = 3
    /\ bio.written[Len(bio.written)] = 1
    /\ Len(bio.got) = Len(bio.written) + MaxExtraReads

(***************************************************************************)
(* Arithmetic coder specification: arith_encode on an input, then both     *)
(* decoders on the encoder's output; or both decoders on arbitrary bytes.  *)
(***************************************************************************)
MaxSrcLen == 2
MaxWin == 3
LongLen == 34
TestWindow == 256

ArBytes == {0, 15, 127, 128, 240, 255}

ArWindows == (1..MaxWin) \cup {TestWindow, MAX_WINDOW_SIZE}

SeqsUpTo(S, n) == UNION {[1..k -> S] : k \in 0..n}

\* one input long enough to fill the window of the tests (256 bits)
ArLongSrc == [k \in 1..LongLen |-> (k * 37 + (k \div 3) * 101) % 256]

\* the bytes of a that are already decided agree with b
IsPrefix(a, b) == Len(a) <= Len(b) /\ \A k \in 1..Len(a) : a[k] = b[k]

\* max_dest_size as the callers size it (minify.c: four times the input)
ArMaxDest(size) == size * 4

ArState(mode, src, code, dsize, w) ==
    [pc |-> IF mode = "rt" THEN "start" ELSE "encoded",
     mode |-> mode, src |-> src, window_size |-> w,
     enc |-> init_encoder(0, w), i |-> 0, input_byte |-> 1, n_enc |-> 0,
     trace |-> <<>>,
     code |-> code, dest_size |-> dsize, max_dest |-> ArMaxDest(Len(src)),
     dec1 |-> [pc |-> "none"], dest1 |-> <<>>, out1 |-> 0, bit1 |-> 0, n1 |-> 0,
     dec2 |-> [pc |-> "none"], dest2 |-> <<>>, out2 |-> 1, n2 |-> 0]

InitArith ==
    /\ \E w \in ArWindows :
          \/ \E src \in SeqsUpTo(ArBytes, MaxSrcLen) \cup {ArLongSrc} :
                ar = ArState("rt", src, <<>>, Len(src), w)
          \/ \E code \in SeqsUpTo(ArBytes, MaxSrcLen) \ {<<>>} :
             \E dsize \in 1..MaxSrcLen :
                ar = ArState("any", <<>>, code, dsize, w)
    /\ bio = Idle /\ fld = Idle /\ fr = Idle /\ lz = Idle

\* arith_encode up to its loop: an empty input returns 0 at once
ArStartEncode ==
    /\ ar.pc = "start"
    /\ ar' = IF Len(ar.src) = 0
             THEN [ar EXCEPT !.pc = "encoded"]
             ELSE [ar EXCEPT
                     !.pc = IF init_encoder(ar.max_dest, ar.window_size).model.fail
                            THEN "abort" ELSE "enc",
                     !.enc = init_encoder(ar.max_dest, ar.window_size),
                     !.input_byte = ar.src[1] + 256]
    /\ UNCHANGED <<bio, fld, fr, lz>>

\* one pass of the do-while of arith_encode
ArEncodeBit ==
    /\ ar.pc = "enc"
    /\ LET e    == encode_bit(ar.enc, ar.input_byte % 2)
           ib   == ar.input_byte \div 2
           last == ib = 1 /\ ar.i + 1 = Len(ar.src)
       IN  ar' = [ar EXCEPT
                !.enc = e,
                !.n_enc = @ + 1,
                !.trace = Append(@, [bit |-> ar.input_byte % 2,
                                     low |-> e.low, high |-> e.high,
                                     prob |-> e.model.prob]),
                !.i = IF ib = 1 THEN @ + 1 ELSE @,
                !.input_byte = IF ib # 1 THEN ib
                               ELSE IF last THEN 1 ELSE ar.src[ar.i + 2] + 256,
                !.pc = IF e.model.fail \/ e.emit.fail THEN "abort"
                       ELSE IF last THEN "tail" ELSE "enc"]
    /\ UNCHANGED <<bio, fld, fr, lz>>

ArEmitTail ==
    /\ ar.pc = "tail"
    /\ LET e == ae_emit_tail(ar.enc)
       IN  ar' = [ar EXCEPT !.enc = e, !.code = e.emit.dest,
                            !.pc = IF e.emit.fail THEN "abort" ELSE "encoded"]
    /\ UNCHANGED <<bio, fld, fr, lz>>

\* arith_decode of arith_encode.c up to its loop
ArStartDecode1 ==
    /\ ar.pc = "encoded"
    /\ ar' = IF ar.dest_size = 0
             THEN [ar EXCEPT !.pc = "decoded1"]
             ELSE LET d == ae_init_decoder(ar.code, Len(ar.code), ar.window_size)
                  IN  [ar EXCEPT !.dec1 = d,
                        !.pc = IF d.bit_puller.fail \/ d.model.fail
                               THEN "abort" ELSE "dec1"]
    /\ UNCHANGED <<bio, fld, fr, lz>>

\* one decode_next_bit of the inner loop; the eighth bit stores the byte
ArDecodeBit1 ==
    /\ ar.pc = "dec1"
    /\ LET d    == ae_decode_next_bit(ar.code, ar.dec1)
           ob   == ar.out1 + d.out_bit * (2 ^ ar.bit1)
           full == ar.bit1 = 7
           dest == IF full THEN Append(ar.dest1, ob) ELSE ar.dest1
       IN  ar' = [ar EXCEPT
                !.dec1 = d, !.n1 = @ + 1,
                !.out1 = IF full THEN 0 ELSE ob,
                !.bit1 = IF full THEN 0 ELSE @ + 1,
                !.dest1 = dest,
                !.pc = IF Len(dest) = ar.dest_size THEN "decoded1" ELSE "dec1"]
    /\ UNCHANGED <<bio, fld, fr, lz>>

\* arith_decode of arith_decode.c up to its loop
ArStartDecode2 ==
    /\ ar.pc = "decoded1"
    /\ ar' = IF ar.dest_size = 0
             THEN [ar EXCEPT !.pc = "done"]
             ELSE LET d == ad_init_decoder(ar.code, Len(ar.code), ar.window_size)
                  IN  [ar EXCEPT !.dec2 = d,
                        !.pc = IF d.stream.fail \/ d.model.fail
                               THEN "abort" ELSE "dec2"]
    /\ UNCHANGED <<bio, fld, fr, lz>>

ArDecodeBit2 ==
    /\ ar.pc = "dec2"
    /\ LET d    == ad_decode_next_bit(ar.code, ar.dec2)
           ob   == ar.out2 * 2 + d.out_bit
           full == ob >= 256
           dest == IF full THEN Append(ar.dest2, ob % 256) ELSE ar.dest2
       IN  ar' = [ar EXCEPT
                !.dec2 = d, !.n2 = @ + 1,
                !.out2 = IF full THEN 1 ELSE ob,
                !.dest2 = dest,
                !.pc = IF Len(dest) = ar.dest_size THEN "done" ELSE "dec2"]
    /\ UNCHANGED <<bio, fld, fr, lz>>

NextArith ==
    \/ ArStartEncode
    \/ ArEncodeBit
    \/ ArEmitTail
    \/ ArStartDecode1
    \/ ArDecodeBit1
    \/ ArStartDecode2
    \/ ArDecodeBit2

SpecArith == InitArith /\ [][NextArith]_vars

ArEncoding == ar.pc \in {"enc", "tail"}
ArDec1Started == ar.pc \in {"dec1", "decoded1", "dec2", "done"} /\ ar.dec1 # [pc |-> "none"]
ArDec2Started == ar.pc \in {"dec2", "done"} /\ ar.dec2 # [pc |-> "none"]

\* C2: the decoder of arith_encode.c, given the bytes and byte count that
\* arith_encode returned for a non-empty S, dest_size = |S| and the same
\* window size W in 1..2048, reproduces S exactly.
C2_ArithRoundTrip ==
    (ar.mode = "rt" /\ Len(ar.src) >= 1) =>
        /\ ar.pc # "abort"
        /\ IsPrefix(ar.dest1, ar.src)
        /\ ar.pc \in {"decoded1", "dec2", "done"} => ar.dest1 = ar.src

C2_Witness ==
    /\ ar.mode = "rt" /\ ar.pc = "decoded1"
    /\ ar.src = <<15, 128>> /\ ar.dest1 = ar.src /\ ar.window_size = 2

ModelOk(m, n) ==
    /\ m.prob[1] >= 1
    /\ m.prob[2] >= 1
    /\ m.prob[1] + m.prob[2] = 2 + Min(n, m.window_size)

\* C7: after init_model(W), 1 <= W <= 2048, and n update_model calls:
\* prob[0] >= 1, prob[1] >= 1 and prob[0] + prob[1] = 2 + min(n, W), in the
\* model of arith_encode.c (encoder and its decoder) and of arith_decode.c.
C7_ModelInvariant ==
    /\ ArEncoding => ModelOk(ar.enc.model, ar.n_enc)
    /\ ArDec1Started => ModelOk(ar.dec1.model, ar.n1)
    /\ ArDec2Started => ModelOk(ar.dec2.model, ar.n2)

\* the window is full (more than W bits seen) in the encoder and in the
\* decoder of arith_decode.c
C7_Witness ==
    /\ ar.pc = "done" /\ ar.mode = "rt" /\ ar.window_size = 3
    /\ ar.n_enc = 16 /\ ar.n2 = 16
    /\ ar.dec2.model.prob[1] + ar.dec2.model.prob[2] = 5
    /\ ar.enc.model.prob = <<4, 1>>

AddWraps(a, b) == a[1] + b[1] + ((a[2] + b[2]) \div B16) >= B16

\* C8: after every encode_bit the encoder has low < high; after every
\* decode_next_bit (arith_decode.c), on any source bytes, low < high and
\* low <= value <= high; low + mid does not wrap in 32 bits.
C8_RangeInvariant ==
    /\ ArEncoding =>
          /\ Lt32(ar.enc.low, ar.enc.high)
          /\ ~AddWraps(ar.enc.low, calc_mid(ar.enc.low, ar.enc.high, ar.enc.model.prob))
    /\ ArDec2Started =>
          /\ Lt32(ar.dec2.low, ar.dec2.high)
          /\ Le32(ar.dec2.low, ar.dec2.value)
          /\ Le32(ar.dec2.value, ar.dec2.high)
          /\ ~AddWraps(ar.dec2.low, calc_mid(ar.dec2.low, ar.dec2.high, ar.dec2.model.prob))

\* the decoder of arith_decode.c has decoded bits of bytes no encoder made,
\* and the range has been renormalised
C8_Witness ==
    /\ ar.mode = "any" /\ ar.pc = "done" /\ ar.n2 = 16
    /\ ar.code = <<127, 240>>
    /\ ar.dec2.low # U32(0)

(***************************************************************************)
(* Packet field specification: one distance or one length is written with  *)
(* emit_offset / emit_size, the emitter is flushed, and the field decoder  *)
(* reads the emitted bits in the order they were emitted.                  *)
(***************************************************************************)
MaxSmallDist == 40
FldBufSize == 8

RECURSIVE RevBits(_, _)
\* the n-bit value b with its bits in reverse order
RevBits(b, n) == IF n = 0 THEN 0 ELSE (b % 2) * 2 ^ (n - 1) + RevBits(b \div 2, n - 1)

\* The emitter stores its first bit in bit 0 of a byte and the reader takes
\* bit 7 first: the reader's memory holds the emitted bits in emission order.
InEmissionOrder(buf) == [k \in 1..Len(buf) |-> RevBits(buf[k], 8)]

RECURSIVE LowestSetBit(_)
LowestSetBit(d) == IF d % 2 = 1 THEN 0 ELSE 1 + LowestSetBit(d \div 2)

\* bits emitted so far: eight per stored byte and those waiting in data
lz_bit_count(em) == 8 * Len(em.buf) + (8 - LowestSetBit(em.data))

\* bits read so far by a stream that started at address 0
bs_bit_count(s) == IF s.data = 0 THEN 0 ELSE 8 * (s.buf - 1) + LowestSetBit(s.data)

Pow2_32(k) == ShlBy32(U32(1), k)

FldDistances ==
    {U32(n) : n \in 1..MaxSmallDist}
    \cup {Pow2_32(k) : k \in 1..31}
    \cup {Add32(Pow2_32(k), U32(1)) : k \in 1..31}
    \cup {Sub32(Pow2_32(k), U32(1)) : k \in 2..31}
    \cup {Add32(Pow2_32(k), Pow2_32(k - 1)) : k \in 1..31}
    \cup {<<k * 4369, 42405>> : k \in 0..15}
    \cup {<<65535, 65535>>}

FldState(kind, d, l) ==
    [pc |-> "start", kind |-> kind, distance |-> d, length |-> l,
     em |-> init_emitter(FldBufSize), nbits |-> 0,
     stream |-> init_bit_stream(0, 1), value |-> U32(0)]

InitFields ==
    /\ \/ \E d \in FldDistances : fld = FldState("dist", d, 0)
       \/ \E l \in 2..MAX_LZA_SIZE : fld = FldState("len", U32(0), l)
    /\ bio = Idle /\ ar = Idle /\ fr = Idle /\ lz = Idle

FldEmitOffset ==
    /\ fld.pc = "start" /\ fld.kind = "dist"
    /\ LET em == emit_offset(fld.em, fld.distance)
       IN  fld' = [fld EXCEPT !.em = em,
                              !.nbits = IF em.fail THEN 0 ELSE lz_bit_count(em),
                              !.pc = IF em.fail THEN "abort" ELSE "emitted"]
    /\ UNCHANGED <<bio, ar, fr, lz>>

FldEmitSize ==
    /\ fld.pc = "start" /\ fld.kind = "len"
    /\ LET em == emit_size(fld.em, fld.length)
       IN  fld' = [fld EXCEPT !.em = em,
                              !.nbits = IF em.fail THEN 0 ELSE lz_bit_count(em),
                              !.pc = IF em.fail THEN "abort" ELSE "emitted"]
    /\ UNCHANGED <<bio, ar, fr, lz>>

FldEmitTail ==
    /\ fld.pc = "emitted"
    /\ LET em == lz_emit_tail(fld.em)
       IN  fld' = [fld EXCEPT !.em = em,
                              !.stream = init_bit_stream(0, Len(em.buf)),
                              !.pc = IF em.fail THEN "abort" ELSE "flushed"]
    /\ UNCHANGED <<bio, ar, fr, lz>>

FldDecodeDistance ==
    /\ fld.pc = "flushed" /\ fld.kind = "dist"
    /\ LET r == decode_distance(InEmissionOrder(fld.em.buf), fld.stream)
       IN  fld' = [fld EXCEPT !.stream = r.s, !.value = r.v, !.pc = "decoded"]
    /\ UNCHANGED <<bio, ar, fr, lz>>

FldDecodeLength ==
    /\ fld.pc = "flushed" /\ fld.kind = "len"
    /\ LET r == decode_length(InEmissionOrder(fld.em.buf), fld.stream)
       IN  fld' = [fld EXCEPT !.stream = r.s, !.value = U32(r.v), !.pc = "decoded"]
    /\ UNCHANGED <<bio, ar, fr, lz>>

NextFields ==
    \/ FldEmitOffset
    \/ FldEmitSize
    \/ FldEmitTail
    \/ FldDecodeDistance
    \/ FldDecodeLength

SpecFields == InitFields /\ [][NextFields]_vars

\* the number of bits the distance field of D takes
DistanceFieldBits(d) ==
    LET o == Sub32(d, U32(1))
    IN  IF Lt32(o, U32(2)) THEN 6 ELSE TopBit32(o) + 5

\* C9: for every distance D, 1 <= D <= 2^32 - 1, emit_offset(D) emits 6 bits
\* when D - 1 < 2 and otherwise k + 5 bits, k the index of the top set bit of
\* D - 1, and decode_distance on these bits returns D and reads exactly them.
C9_DistanceRoundTrip ==
    fld.kind = "dist" =>
        /\ fld.pc # "abort"
        /\ fld.pc \in {"emitted", "flushed", "decoded"} =>
              fld.nbits = DistanceFieldBits(fld.distance)
        /\ fld.pc = "decoded" =>
              /\ fld.value = fld.distance
              /\ bs_bit_count(fld.stream) = fld.nbits

\* the distance 2^28 + 1 has been written and read back as another value
C9_Witness ==
    /\ fld.kind = "dist" /\ fld.pc = "decoded"
    /\ fld.distance = <<4096, 1>>
    /\ fld.value # fld.distance

\* C10: for every length L, 2 <= L <= MAX_LZA_SIZE = 17 + 2^11, emit_size(L)
\* accepts L and decode_length returns L from the bits it emitted.
C10_LengthAgreement ==
    fld.kind = "len" =>
        /\ fld.pc # "abort"
        /\ fld.pc = "decoded" => fld.value = U32(fld.length)

\* emit_size has refused a length that the match finder can report
C10_Witness ==
    /\ fld.kind = "len" /\ fld.pc = "abort"
    /\ fld.length = 274
    /\ fld.length <= MAX_LZA_SIZE

(***************************************************************************)
(* Match finder specification: find_repeats on one input with callbacks    *)
(* that record their arguments, as those of test_repeats.c do.             *)
(***************************************************************************)
MaxInLen == 7
LongRun == 2070
FarGap == 2050

FrAlphabet == {97, 98, 99}

\* word, a run of gap bytes, the word again before a byte that ends the
\* match, and the word a third time
FarInput(word, gap) ==
    ((word \o [k \in 1..gap |-> 120]) \o (word \o <<121>>)) \o (word \o <<122>>)

\* inputs of test_repeats.c and inputs with long matches and long runs
FrFixedInputs ==
    { <<97, 98, 99, 100, 97, 98, 99, 100, 97, 98, 99, 100>>,
      <<97, 98, 99, 97, 98, 99, 120, 121, 98, 99, 97, 98, 99, 120, 121>>,
      <<120, 97, 97, 97, 97, 97, 97, 97, 97, 121, 97, 97, 97, 97, 97, 97, 122>>,
      [k \in 1..40 |-> 97 + ((k * k) % 5)],
      [k \in 1..40 |-> 97 + (k % 2)],
      [k \in 1..60 |-> IF (k % 20) < 12 THEN 97 + (k % 3) ELSE 100 + (k % 7)],
      [k \in 1..LongRun |-> 97],
      [k \in 1..LongRun |-> IF k = 1 \/ k > LongRun - 3 THEN 98 ELSE 97],
      FarInput(<<97, 98, 99>>, FarGap),
      FarInput(<<97, 98, 99, 100>>, 4 * FarGap) }

FrInitial(buf) == [fr_start(buf, TRUE) EXCEPT !.pc = "start"]

InitRepeats ==
    /\ \/ \E buf \in SeqsUpTo(FrAlphabet, MaxInLen) : fr = FrInitial(buf)
       \/ \E buf \in FrFixedInputs : fr = FrInitial(buf)
    /\ bio = Idle /\ ar = Idle /\ fld = Idle /\ lz = Idle

FrStart ==
    /\ fr.pc = "start"
    /\ \E alloc \in BOOLEAN : fr' = fr_start(fr.buf, alloc)
    /\ UNCHANGED <<bio, ar, fld, lz>>

FrIterate ==
    /\ fr.pc = "loop"
    /\ fr.pos + 1 < fr.size
    /\ fr' = fr_iterate(fr)
    /\ UNCHANGED <<bio, ar, fld, lz>>

FrFinish ==
    /\ fr.pc = "loop"
    /\ ~(fr.pos + 1 < fr.size)
    /\ fr' = fr_finish(fr)
    /\ UNCHANGED <<bio, ar, fld, lz>>

NextRepeats ==
    \/ FrStart
    \/ FrIterate
    \/ FrFinish

SpecRepeats == InitRepeats /\ [][NextRepeats]_vars

(***************************************************************************)
(* The offset map on a long input.  find_longest_occurrence takes the map  *)
(* as const and find_repeats calls set_offset once for every position      *)
(* below size - 1, in increasing order, whatever it reports; the map       *)
(* after pos calls is computed here a block of calls at a time, without    *)
(* the searches between them.                                              *)
(***************************************************************************)
ArenaBlock == 2 ^ 9

\* a, then a b for every byte b above a
ArenaWord(a) ==
    [k \in 1..(1 + 2 * (255 - a)) |->
        IF k = 1 \/ k % 2 = 0 THEN a ELSE a + (k - 1) \div 2]

RECURSIVE ArenaWords(_, _)
ArenaWords(lo, hi) ==
    IF lo = hi THEN ArenaWord(lo)
    ELSE ArenaWords(lo, (lo + hi) \div 2) \o ArenaWords((lo + hi) \div 2 + 1, hi)

\* 2^16 bytes in which no pair of adjacent bytes occurs twice, then
\* 0 1 0 1 ... for tail bytes
ArenaInput(tail) ==
    ArenaWords(0, 255) \o [k \in 1..tail |-> IF k % 2 = 1 THEN 0 ELSE 1]

InitArena ==
    /\ \E tail \in {0, 2 * MAX_OFFSETS + 2} : fr = FrInitial(ArenaInput(tail))
    /\ bio = Idle /\ ar = Idle /\ fld = Idle /\ lz = Idle

\* the calls of set_offset for the next positions, ArenaBlock at most
arena_set_offsets(f, count) ==
    LET map == set_offsets(f.buf, f.size, f.pos, count, f.map)
    IN  [f EXCEPT !.map = map, !.pos = f.pos + count,
                  !.pc = IF map.bad THEN "abort" ELSE "loop"]

ArenaSetOffsets ==
    /\ fr.pc = "loop"
    /\ fr.pos + 1 < fr.size
    /\ fr' = arena_set_offsets(fr, Min(ArenaBlock, fr.size - 1 - fr.pos))
    /\ UNCHANGED <<bio, ar, fld, lz>>

ArenaFinish ==
    /\ fr.pc = "loop"
    /\ ~(fr.pos + 1 < fr.size)
    /\ fr' = [fr EXCEPT !.pc = "done"]
    /\ UNCHANGED <<bio, ar, fld, lz>>

NextArena ==
    \/ FrStart
    \/ ArenaSetOffsets
    \/ ArenaFinish

SpecArena == InitArena /\ [][NextArena]_vars

CallLen(c) == IF c.what = "literal" THEN c.size ELSE c.length

\* the calls cover [0, Covered) without gap or overlap, in increasing order
Tiling(calls) ==
    \A k \in 1..Len(calls) :
        /\ CallLen(calls[k]) >= 1
        /\ calls[k].pos = IF k = 1 THEN 0
                          ELSE calls[k - 1].pos + CallLen(calls[k - 1])

Covered(calls) ==
    IF calls = <<>> THEN 0
    ELSE calls[Len(calls)].pos + CallLen(calls[Len(calls)])

ValidMatch(buf, size, c) ==
    /\ 1 <= c.distance
    /\ c.distance <= c.pos
    /\ c.pos + c.length <= size
    /\ \A i \in 0..(c.length - 1) :
          Byte(buf, c.pos + i) = Byte(buf, c.pos + i - c.distance)

\* what a decoder writes for one call after out: a literal run is copied
\* from the input, a match byte by byte from distance bytes back
ReplayCall(buf, out, c) ==
    IF c.what = "literal"
    THEN out \o [i \in 1..c.size |-> Byte(buf, c.pos + i - 1)]
    ELSE out \o [i \in 1..c.length |->
                    out[Len(out) - c.distance + ((i - 1) % c.distance) + 1]]

RECURSIVE Replay(_, _, _, _)
Replay(buf, calls, k, out) ==
    IF k > Len(calls) THEN out
    ELSE Replay(buf, calls, k + 1, ReplayCall(buf, out, calls[k]))

\* C5: every match callback (pos, length, distance) has 1 <= distance <= pos,
\* pos + length <= size and buf[pos + i] = buf[pos + i - distance] for all
\* i < length; decoding the callbacks in order gives the input.
C5_MatchValidity ==
    fr.pc # "idle" =>
        /\ \A k \in 1..Len(fr.calls) :
              fr.calls[k].what = "match" => ValidMatch(fr.buf, fr.size, fr.calls[k])
        /\ (fr.pc = "done" /\ fr.ret = 0) =>
              Replay(fr.buf, fr.calls, 1, <<>>) = fr.buf

\* an overlapping match (distance below length) has been reported
C5_Witness ==
    /\ fr.pc = "done"
    /\ \E k \in 1..Len(fr.calls) :
          /\ fr.calls[k].what = "match"
          /\ fr.calls[k].distance > 1
          /\ fr.calls[k].distance < fr.calls[k].length

(***************************************************************************)
(* Compression pipeline specification: compress of lza_compress.c on an    *)
(* input and a window size, then lza_decompress of lza_decompress.c on the *)
(* bytes compress returned.  fr is find_repeats inside compress, ar the    *)
(* arithmetic coder stage of each side.                                    *)
(***************************************************************************)
MaxLzLen == 5
MaxExtraScratch == 1
MaxBeyond == 2

LzAlphabet == {97, 98}

LzWindows == {2, TestWindow}

\* what a byte reads as that the program has not written: a byte of the
\* destination before it is stored, a byte after the scratch
LzUninit == {0, 4, 170}

\* inputs with literals only, matches, repeated distances and short repeats
LzFixedInputs ==
    { <<97, 98, 99, 98, 99>>,
      <<97, 98, 99, 32, 97, 98, 99, 97, 98, 99>>,
      <<100, 101, 120, 97, 98, 99, 32, 97, 98, 99, 100, 101, 121, 97, 98, 99>>,
      <<48, 98, 99, 100, 49, 99, 100, 50, 98, 99, 51, 98, 99, 100>>,
      [k \in 1..24 |-> 97 + ((k * k) % 5)],
      [k \in 1..30 |-> IF (k % 14) < 12 THEN 97 + (k % 3) ELSE 100 + (k % 7)] }

LzInitial(buf, w) ==
    [pc |-> "start", buf |-> buf, window_size |-> w, scratch_size |-> 0,
     dest_size |-> estimate_compress_size(Len(buf)),
     c |-> init_compress(0), reported |-> 0,
     lz77 |-> <<>>, compressed |-> <<>>, scratch |-> <<>>,
     d |-> [pc |-> "none"]]

InitLZ ==
    /\ \E w \in LzWindows :
          \/ \E buf \in SeqsUpTo(LzAlphabet, MaxLzLen) :
                lz = LzInitial(buf, w)
          \/ \E buf \in LzFixedInputs : lz = LzInitial(buf, w)
    /\ fr = Idle /\ ar = Idle /\ bio = Idle /\ fld = Idle

\* the compressor after the callbacks find_repeats made in one step
lz_report(l, f) ==
    [l EXCEPT !.c = report_calls(l.c, l.buf, f.calls, l.reported + 1),
              !.reported = Len(f.calls)]

\* compress after find_repeats has returned non-zero: the memset, return
compress_failure(l) ==
    [l EXCEPT !.c.sizes = ZeroSizes, !.pc = "failed"]

\* compress after init_compress, f the first step of find_repeats
compress_start(l, f) ==
    IF f.pc = "done" /\ f.ret # 0 THEN compress_failure(l)
    ELSE [l EXCEPT !.pc = "find"]

\* compress up to the loop of find_repeats
LzStart ==
    /\ lz.pc = "start"
    /\ \E alloc \in BOOLEAN :
          /\ fr' = fr_start(lz.buf, alloc)
          /\ lz' = IF lz.dest_size \div 2 < Len(lz.buf)
                   THEN [lz EXCEPT !.pc = "abort"]
                   ELSE compress_start(
                            lz_report([lz EXCEPT !.c = init_compress(lz.dest_size)],
                                      fr'),
                            fr')
    /\ UNCHANGED <<bio, ar, fld>>

lz_reported(l, f) ==
    IF f.pc = "abort" \/ compress_failed(l.c) THEN [l EXCEPT !.pc = "abort"] ELSE l

\* one pass of the loop of find_repeats with the callbacks of compress
LzIterate ==
    /\ lz.pc = "find"
    /\ fr.pc = "loop"
    /\ fr.pos + 1 < fr.size
    /\ fr' = fr_iterate(fr)
    /\ lz' = lz_reported(lz_report(lz, fr'), fr')
    /\ UNCHANGED <<bio, ar, fld>>

\* compress from finish_compress to the call of arith_encode
lz_header(l, half_size, streams, hdr) ==
    IF hdr.fail \/ Len(hdr.buf) + Len(streams) > half_size
    THEN [l EXCEPT !.pc = "abort"]
    ELSE [l EXCEPT !.pc = "arith", !.lz77 = hdr.buf \o streams,
                   !.compressed = <<l.window_size % 256,
                                    (l.window_size \div 256) % 256>>,
                   !.c.sizes.total = @ + Len(hdr.buf)]

lz_finish(l, half_size, c) ==
    IF compress_failed(c) \/ Len(lz_streams(c)) > half_size
    THEN [l EXCEPT !.c = c, !.pc = "abort"]
    ELSE lz_header([l EXCEPT !.c = c], half_size, lz_streams(c),
                   emit_header(half_size, c.sizes.types, c.sizes.literals,
                               c.sizes.sizes, c.sizes.offsets))

lz_finished(l) ==
    IF l.pc = "abort" THEN l
    ELSE lz_finish(l, l.dest_size \div 2, finish_compress(l.c))

\* the arithmetic coder stage compress starts on the LZ77 bytes
lz_arith_input(l) ==
    IF l.pc # "arith" THEN ar
    ELSE [ArState("lz", l.lz77, <<>>, 0, l.window_size) EXCEPT
            !.pc = "start",
            !.max_dest = (l.dest_size \div 2) - (Len(l.lz77) - Len(lz_streams(l.c)))]

\* the end of find_repeats, its last callbacks, and compress up to the
\* call of arith_encode
LzFinish ==
    /\ lz.pc = "find"
    /\ \/ /\ fr.pc = "loop"
          /\ ~(fr.pos + 1 < fr.size)
          /\ fr' = fr_finish(fr)
       \/ /\ fr.pc = "done"
          /\ fr.size = 0
          /\ fr' = fr
    /\ lz' = lz_finished(lz_reported(lz_report(lz, fr'), fr'))
    /\ ar' = lz_arith_input(lz')
    /\ UNCHANGED <<bio, fld>>

\* compress after arith_encode: the window size in two bytes, little
\* endian, then the code
LzCompressDone ==
    /\ lz.pc = "arith"
    /\ ar.pc = "encoded"
    /\ lz' = [lz EXCEPT
                !.compressed = lz.compressed \o ar.code,
                !.c.sizes.compressed = Len(ar.code) + 2,
                !.pc = IF Len(ar.code) + 2 > lz.dest_size \div 2
                       THEN "abort" ELSE "compressed"]
    /\ UNCHANGED <<bio, ar, fld, fr>>

\* lza_decompress up to the loop of arith_decode, with dest_size the size
\* of the input of compress and a scratch of the LZ77 bytes or more
LzDecompressStart ==
    /\ lz.pc = "compressed"
    /\ \E extra \in 0..MaxExtraScratch :
          IF Len(lz.buf) = 0 \/ Len(lz.compressed) <= 2
          THEN /\ lz' = [lz EXCEPT !.pc = "abort"]
               /\ ar' = ar
          ELSE /\ lz' = [lz EXCEPT !.pc = "arith_decode",
                                   !.scratch_size = Len(lz.lz77) + extra]
               /\ ar' = [ArState("lz", <<>>,
                                 SubSeq(lz.compressed, 3, Len(lz.compressed)),
                                 Len(lz.lz77) + extra,
                                 lz.compressed[1] + 256 * lz.compressed[2])
                           EXCEPT !.pc = "decoded1"]
    /\ UNCHANGED <<bio, fld, fr>>

lzd_started(l, d) ==
    [l EXCEPT !.d = d,
              !.pc = IF \E k \in 1..LZS_NUM_STREAMS : d.stream[k].fail THEN "abort"
                     ELSE "packets"]

lzd_header(l, hdr, uninit) ==
    IF hdr.s.buf > Len(l.scratch) THEN [l EXCEPT !.pc = "outside"]
    ELSE lzd_started(l, lzd_start(hdr, Len(l.buf), uninit))

lzd_begin(l, mem, uninit) ==
    lzd_header([l EXCEPT !.scratch = mem],
               read_sizes(mem, init_bit_stream(0, Len(l.buf)), LZS_NUM_STREAMS, <<>>),
               uninit)

\* lz_decompress up to its loop, on the scratch arith_decode filled, the
\* MaxBeyond bytes that happen to follow it in memory, and a destination
\* that holds uninit in every byte
LzDecodeHeader ==
    /\ lz.pc = "arith_decode"
    /\ ar.pc = "done"
    /\ \E beyond \in [1..MaxBeyond -> LzUninit] : \E uninit \in LzUninit :
          lz' = lzd_begin(lz, ar.dest2 \o beyond, uninit)
    /\ UNCHANGED <<bio, ar, fld, fr>>

lzd_stepped(l, d) ==
    [l EXCEPT !.d = d,
              !.pc = IF lzd_outside(l.scratch, l.d.stream, d.stream) THEN "outside"
                     ELSE IF d.bad THEN "abort"
                     ELSE IF Len(d.dest) < d.dest_size THEN "packets"
                     ELSE "done"]

\* one pass of the do-while of lz_decompress
LzDecodePacket ==
    /\ lz.pc = "packets"
    /\ lz' = lzd_stepped(lz, lzd_packet(lz.scratch, lz.d, lz.d.uninit))
    /\ UNCHANGED <<bio, ar, fld, fr>>

NextLZ ==
    \/ LzStart
    \/ LzIterate
    \/ LzFinish
    \/ ArStartEncode
    \/ ArEncodeBit
    \/ ArEmitTail
    \/ LzCompressDone
    \/ LzDecompressStart
    \/ ArStartDecode2
    \/ ArDecodeBit2
    \/ LzDecodeHeader
    \/ LzDecodePacket

SpecLZ == InitLZ /\ [][NextLZ]_vars

(***************************************************************************)
(* compress and lza_decompress with a window size outside 1..2048          *)
(***************************************************************************)
MaxWindowLen == 3

LzBadWindows == {0, MAX_WINDOW_SIZE + 1}

InitWindow ==
    /\ \E w \in LzBadWindows :
          \/ \E buf \in SeqsUpTo(LzAlphabet, MaxWindowLen) :
                lz = LzInitial(buf, w)
          \/ \E buf \in LzFixedInputs : lz = LzInitial(buf, w)
    /\ fr = Idle /\ ar = Idle /\ bio = Idle /\ fld = Idle

SpecWindow == InitWindow /\ [][NextLZ]_vars

(***************************************************************************)
(* lza_decompress on arbitrary compressed bytes, with a destination of     *)
(* dest_size bytes and a scratch of scratch_size bytes                     *)
(***************************************************************************)
MaxCorruptLen == 4
MaxCorruptDest == 2
MaxCorruptScratch == 3

CorruptBytes == {0, 1, 170}

CorruptInitial(compressed, dest_size, scratch_size) ==
    [LzInitial([k \in 1..dest_size |-> 0], 0) EXCEPT
        !.pc = "corrupt", !.compressed = compressed,
        !.scratch_size = scratch_size]

InitCorrupt ==
    /\ \E compressed \in SeqsUpTo(CorruptBytes, MaxCorruptLen) :
       \E dest_size \in 0..MaxCorruptDest :
       \E scratch_size \in 1..MaxCorruptScratch :
          /\ Len(compressed) > 2
          /\ lz = CorruptInitial(compressed, dest_size, scratch_size)
    /\ fr = Idle /\ ar = Idle /\ bio = Idle /\ fld = Idle

\* lza_decompress up to the loop of arith_decode
LzCorruptStart ==
    /\ lz.pc = "corrupt"
    /\ IF Len(lz.buf) = 0 \/ Len(lz.compressed) <= 2
       THEN /\ lz' = [lz EXCEPT !.pc = "abort"]
            /\ ar' = ar
       ELSE /\ lz' = [lz EXCEPT !.pc = "arith_decode"]
            /\ ar' = [ArState("lz", <<>>,
                              SubSeq(lz.compressed, 3, Len(lz.compressed)),
                              lz.scratch_size,
                              lz.compressed[1] + 256 * lz.compressed[2])
                        EXCEPT !.pc = "decoded1"]
    /\ UNCHANGED <<bio, fld, fr>>

NextCorrupt ==
    \/ LzCorruptStart
    \/ ArStartDecode2
    \/ ArDecodeBit2
    \/ LzDecodeHeader
    \/ LzDecodePacket

SpecCorrupt == InitCorrupt /\ [][NextCorrupt]_vars

LzDecoding == lz.pc \in {"packets", "done"} \/ (lz.pc \in {"abort", "outside"} /\ lz.scratch # <<>>)

LzDecoderRan == LzDecoding /\ "dest" \in DOMAIN lz.d

\* C1: for every non-empty input B and window size W, compress and then
\* lza_decompress with dest_size = |B| and a large enough scratch write
\* exactly B: no step of the two fails an assertion or leaves the scratch,
\* every byte written is the byte of B at its place, and at the end the
\* destination holds B.
C1_RoundTrip ==
    (lz.pc # "idle" /\ lz.buf # <<>>) =>
        /\ lz.pc \notin {"abort", "outside"}
        /\ ar.pc # "abort"
        /\ LzDecoderRan => IsPrefix(lz.d.dest, lz.buf)
        /\ lz.pc = "done" => lz.d.dest = lz.buf

\* compress has returned without a failed assertion, and the first byte
\* lza_decompress writes is not the first byte of the input
C1_Witness ==
    /\ lz.pc = "packets"
    /\ lz.buf = <<97, 98, 99, 98, 99>>
    /\ Len(lz.d.dest) = 1
    /\ lz.d.dest[1] # lz.buf[1]

NoDuplicate(last_dist) ==
    \A i, j \in 1..4 : (i # j /\ last_dist[i] # 0) => last_dist[i] # last_dist[j]

NoDuplicate32(last_dist) ==
    \A i, j \in 1..4 : (i # j /\ last_dist[i] # U32(0)) => last_dist[i] # last_dist[j]

LastMatchDistance(calls) ==
    LET m == {k \in 1..Len(calls) : calls[k].what = "match"}
    IN  IF m = {} THEN 0 ELSE calls[CHOOSE k \in m : \A j \in m : j <= k].distance

\* C6: after every update of the last distances, in find_repeats during
\* compress and in lz_decompress on the stream compress produced, no
\* non-zero distance is in the vector twice and its entry 0 is the
\* distance of the match reported (decoded) last.
C6_LastDistances ==
    /\ fr.pc # "idle" =>
          /\ NoDuplicate(fr.last_dist)
          /\ LastMatchDistance(fr.calls) # 0 =>
                fr.last_dist[1] = LastMatchDistance(fr.calls)
    /\ LzDecoderRan =>
          /\ NoDuplicate32(lz.d.last_dist)
          /\ lz.d.matches > 0 => lz.d.last_dist[1] = lz.d.distance

\* find_repeats has moved a distance from a later entry to entry 0, and
\* lz_decompress has updated its vector with two different distances
C6_Witness ==
    /\ fr.pc = "done"
    /\ \E k \in 1..Len(fr.calls) :
          fr.calls[k].what = "match" /\ fr.calls[k].last > 0 /\ fr.calls[k].length > 1
    /\ LzDecoderRan
    /\ lz.d.last_dist[1] # U32(0)
    /\ lz.d.last_dist[2] # U32(0)

ReportedMatches ==
    SelectSeq(SubSeq(fr.calls, 1, lz.reported), LAMBDA call : call.what = "match")

RepeatPackets == SelectSeq(lz.c.packets, LAMBDA type : type # TYPE_LIT)

RECURSIVE DecoderVector(_, _)
\* the last distances of lz_decompress before the j-th match packet, when
\* the packets before it carried the distances find_repeats reported
DecoderVector(matches, j) ==
    IF j = 1 THEN <<U32(0), U32(0), U32(0), U32(0)>>
    ELSE lzd_update(DecoderVector(matches, j - 1), U32(matches[j - 1].distance))

\* the entry lz_decompress takes for a LONGREP* type as emit_type wrote it
DecoderSlot(type) ==
    IF type_size(type) = 5 THEN lzd_longrep_index((type \div 2) % 4, type % 2)
    ELSE lzd_longrep_index(type % 4, 0)

\* C11: for every LONGREP[i] packet compress emits, the distance find_repeats
\* reported is entry i of the last distances the decoder holds at that
\* packet, and every SHORTREP packet is a length-1 copy at entry 0.
C11_RepeatSlots ==
    (lz.pc # "idle" /\ fr.pc # "idle") =>
        \A j \in 1..Len(RepeatPackets) :
            /\ RepeatPackets[j] \in {TYPE_LONGREP0, TYPE_LONGREP1, TYPE_LONGREP2, TYPE_LONGREP3}
                  => U32(ReportedMatches[j].distance)
                        = DecoderVector(ReportedMatches, j)[DecoderSlot(RepeatPackets[j]) + 1]
            /\ RepeatPackets[j] = TYPE_SHORTREP
                  => /\ ReportedMatches[j].length = 1
                     /\ U32(ReportedMatches[j].distance)
                           = DecoderVector(ReportedMatches, j)[1]

\* compress has returned, having written a LONGREP[3] packet for a match at
\* the most recent distance
C11_Witness ==
    /\ lz.pc = "compressed"
    /\ \E j \in 1..Len(RepeatPackets) :
          /\ RepeatPackets[j] = TYPE_LONGREP3
          /\ ReportedMatches[j].last = 0
          /\ ReportedMatches[j].length > 1
          /\ U32(ReportedMatches[j].distance) = DecoderVector(ReportedMatches, j)[1]
          /\ U32(ReportedMatches[j].distance) # DecoderVector(ReportedMatches, j)[4]

\* the bytes compress wrote before the streams: the header
HeaderLength == Len(lz.lz77) - Len(lz_streams(lz.c))

\* lz_decompress has prepared its streams and decoded no packet yet
LzAtFirstPacket == lz.pc = "packets" /\ lz.d.dest = <<>>

StreamSize(s) == s.end - s.buf

\* C12: the intermediate compress writes is a header of five sizes and then
\* the five streams, and lz_decompress partitions it with the same sizes:
\* its first stream starts where the header ends and is as long as the TYPE
\* stream compress wrote, its last stream is as long as the OFFSET stream
\* compress wrote, and the five streams end where the intermediate ends.
C12_HeaderAgreement ==
    LzAtFirstPacket =>
        /\ Len(lz.d.stream) = LZS_NUM_STREAMS
        /\ lz.d.stream[1].buf = HeaderLength
        /\ StreamSize(lz.d.stream[1]) = Len(lz.c.type_emitter.buf)
        /\ StreamSize(lz.d.stream[LZS_NUM_STREAMS]) = Len(lz.c.offset_emitter.buf)
        /\ lz.d.stream[LZS_NUM_STREAMS].end = Len(lz.lz77)

\* compress has returned normally and lz_decompress is about to decode its
\* first packet with a first stream that starts inside the TYPE stream
C12_Witness ==
    /\ LzAtFirstPacket
    /\ lz.d.stream[1].buf > HeaderLength
    /\ lz.d.stream[LZS_NUM_STREAMS].end # Len(lz.lz77)

\* the LIT packets compress has written
LitPackets == SelectSeq(lz.c.packets, LAMBDA type : type = TYPE_LIT)

\* the bits an emitter has taken: the bytes stored and the bits of data
\* above its marker bit
PendingBits(em) == CHOOSE k \in 0..7 : em.data % (2 ^ (9 - k)) = 2 ^ (8 - k)

EmittedBits(em) == 8 * Len(em.buf) + PendingBits(em)

\* C13: a LIT packet puts the top bit of the literal, XORed with the top
\* bit of the literal before it, into the LITERAL_MSB stream and the low
\* seven bits into the LITERAL stream, as lz_decompress reads them: while
\* compress runs, the literal stream holds seven bits for every LIT packet.
C13_LiteralSplit ==
    (lz.pc = "find" /\ ~compress_failed(lz.c)) =>
        EmittedBits(lz.c.literal_emitter) = 7 * Len(LitPackets)

\* compress has written two LIT packets and its literal stream holds the
\* sixteen bits of the two bytes
C13_Witness ==
    /\ lz.pc = "find"
    /\ ~compress_failed(lz.c)
    /\ Len(LitPackets) = 2
    /\ Len(lz.c.literal_emitter.buf) = 2
    /\ PendingBits(lz.c.literal_emitter) = 0
    /\ lz.buf[1] # lz.buf[2]

\* the distance of the match reported last before the k-th call, 0 if none
RECURSIVE RecentDistance(_, _)
RecentDistance(calls, k) ==
    IF k <= 1 THEN 0
    ELSE IF calls[k - 1].what = "match" THEN calls[k - 1].distance
    ELSE RecentDistance(calls, k - 1)

\* C14: every match find_repeats reports with last < 0 has length >= 2 and
\* distance >= 1, distance <= 2048 when its length is 3 and distance <= 8192
\* when its length is 4; every match it reports with last >= 0 has
\* length >= 2, or has length 1 and the most recent distance.
C14_PacketMinimality ==
    fr.pc # "idle" =>
        \A k \in 1..Len(fr.calls) :
            fr.calls[k].what = "match" =>
                IF fr.calls[k].last < 0
                THEN /\ fr.calls[k].length >= 2
                     /\ fr.calls[k].distance >= 1
                     /\ fr.calls[k].length = 3 => fr.calls[k].distance <= 2 ^ 11
                     /\ fr.calls[k].length = 4 => fr.calls[k].distance <= 2 ^ 13
                ELSE \/ fr.calls[k].length >= 2
                     \/ /\ fr.calls[k].length = 1
                        /\ fr.calls[k].last = 0
                        /\ fr.calls[k].distance = RecentDistance(fr.calls, k)

\* find_repeats has returned for the input whose word of four bytes comes
\* back more than 8192 bytes later: that occurrence was not reported as a
\* match, the third one, close by, was
C14_Witness ==
    /\ fr.pc = "done"
    /\ fr.buf = FarInput(<<97, 98, 99, 100>>, 4 * FarGap)
    /\ \A k \in 1..Len(fr.calls) :
          fr.calls[k].what = "match" => fr.calls[k].pos # 4 + 4 * FarGap
    /\ \E k \in 1..Len(fr.calls) :
          /\ fr.calls[k].what = "match"
          /\ fr.calls[k].last < 0
          /\ fr.calls[k].length = 4
          /\ fr.calls[k].distance = 5

\* ceil(n / 8)
BytesFor(n) == (n + 7) \div 8

\* the n bits written, then copies of the last of them up to a whole byte
PaddedBits(written) ==
    [j \in 1..(8 * BytesFor(Len(written))) |->
        IF j <= Len(written) THEN written[j] ELSE written[Len(written)]]

\* the bits of the bytes of bit_emit.c, the first written on top, and of
\* the bytes of lza_compress.c, the first written at the bottom
BitsMsbFirst(bytes) ==
    [j \in 1..(8 * Len(bytes)) |->
        (bytes[(j + 7) \div 8] \div (2 ^ (7 - ((j - 1) % 8)))) % 2]

BitsLsbFirst(bytes) ==
    [j \in 1..(8 * Len(bytes)) |->
        (bytes[(j + 7) \div 8] \div (2 ^ ((j - 1) % 8))) % 2]

\* C15: after N >= 0 bits, emit_tail of bit_emit.c and emit_tail of
\* lza_compress.c each leave ceil(N / 8) bytes, the count they return: the
\* N bits and then copies of the last bit written, and no byte more when
\* N is a multiple of 8.
C15_TailFlush ==
    (bio.pc \in {"tail", "read"}) =>
        /\ ~bio.emitter.fail
        /\ ~bio.lz_emitter.fail
        /\ Len(bio.emitter.out) = BytesFor(Len(bio.written))
        /\ Len(bio.lz_emitter.buf) = BytesFor(Len(bio.written))
        /\ BitsMsbFirst(bio.emitter.out) = PaddedBits(bio.written)
        /\ BitsLsbFirst(bio.lz_emitter.buf) = PaddedBits(bio.written)

\* emit_tail has forced out the one bit written after a whole byte, as the
\* bit and seven copies of it
C15_Witness ==
    /\ bio.pc = "tail"
    /\ Len(bio.written) = 9
    /\ bio.written[9] # bio.written[8]
    /\ Len(bio.emitter.out) = 2
    /\ bio.emitter.out[2] = 255 * bio.written[9]
    /\ bio.lz_emitter.buf[2] = 255 * bio.written[9]

\* C16: when find_repeats returns non-zero, compress returns sizes that are
\* zero in every field, no callback has been invoked and no byte of the
\* destination has been written.
C16_AllocationFailure ==
    /\ (lz.pc # "idle" /\ fr.pc = "done" /\ fr.ret # 0) => lz.pc = "failed"
    /\ lz.pc = "failed" =>
          /\ lz.c.sizes = ZeroSizes
          /\ fr.calls = <<>>
          /\ lz.c.packets = <<>>
          /\ lz.c.type_emitter.buf = <<>>
          /\ lz.c.literal_emitter.buf = <<>>
          /\ lz.c.size_emitter.buf = <<>>
          /\ lz.c.offset_emitter.buf = <<>>
          /\ lz.lz77 = <<>>
          /\ lz.compressed = <<>>

\* compress has returned after find_repeats failed to allocate its map for
\* an input of several bytes
C16_Witness ==
    /\ lz.pc = "failed"
    /\ fr.pc = "done"
    /\ fr.ret = 1
    /\ Len(lz.buf) = MaxLzLen

\* C17: compress and arith_encode reject a window size of 0 or above 2048
\* before any bit is encoded and before any output byte is written: the
\* encoder has taken no bit and stored no byte, and compress has written no
\* byte of its compressed output.
C17_WindowRejected ==
    (lz.pc # "idle" /\ lz.window_size \notin 1..MAX_WINDOW_SIZE) =>
        /\ lz.compressed = <<>>
        /\ ar.pc # "idle" =>
              /\ ar.n_enc = 0
              /\ ar.enc.emit.dest = <<>>
        /\ lz.pc \notin {"compressed", "arith_decode", "packets", "done"}

\* compress has returned normally with window size 0, with encoded bytes
\* after the two bytes of the window size
C17_Witness ==
    /\ lz.pc = "compressed"
    /\ lz.window_size = 0
    /\ ar.n_enc = 8 * Len(lz.lz77)
    /\ Len(lz.compressed) > 2

\* the header as lz_decompress reads it from the scratch
ScratchHeader ==
    read_sizes(lz.scratch, init_bit_stream(0, Len(lz.buf)), LZS_NUM_STREAMS, <<>>)

\* a reader of lz_decompress has taken a byte that is not one of the
\* scratch_size bytes arith_decode stored
ReadBeyondScratch ==
    /\ lz.scratch # <<>>
    /\ \/ ScratchHeader.s.buf > lz.scratch_size
       \/ /\ "stream" \in DOMAIN lz.d
          /\ \E k \in 1..LZS_NUM_STREAMS :
                /\ lz.d.stream[k].buf > lzd_streams(ScratchHeader)[k].buf
                /\ lz.d.stream[k].buf > lz.scratch_size

\* C18: for arbitrary compressed bytes, the arithmetic decoder of
\* lza_decompress takes no byte at or after the end of the compressed
\* bytes, and lz_decompress takes no byte after the scratch_size bytes of
\* the scratch, whatever sizes the header holds.
C18_NoReadOutside ==
    /\ (ar.pc \in {"dec2", "done"} /\ "stream" \in DOMAIN ar.dec2) =>
          ar.dec2.stream.buf <= Len(ar.code)
    /\ lz.pc # "idle" => ~ReadBeyondScratch

\* arith_decode has filled the scratch and lz_decompress has decoded a
\* packet from bytes after it
C18_Witness ==
    /\ ar.pc = "done"
    /\ Len(ar.dest2) = lz.scratch_size
    /\ lz.pc \in {"packets", "done", "outside"}
    /\ "stream" \in DOMAIN lz.d
    /\ Len(lz.d.dest) > 0
    /\ ReadBeyondScratch

\* C19: compress of an input of zero bytes with W = 256 fails no assertion
\* and produces zero bytes of output, a compressed size of 0.
C19_EmptyInput ==
    (lz.pc # "idle" /\ lz.buf = <<>> /\ lz.window_size = TestWindow) =>
        /\ lz.pc # "abort"
        /\ ar.pc # "abort"
        /\ lz.compressed = <<>>
        /\ lz.c.sizes.compressed = 0

\* find_repeats has returned 0 for the input of zero bytes, the four
\* streams are empty, and emit_header has failed its assertion on a size of 0
C19_Witness ==
    /\ lz.pc = "abort"
    /\ lz.buf = <<>>
    /\ lz.window_size = TestWindow
    /\ fr.pc = "done"
    /\ fr.ret = 0
    /\ lz.c.sizes.total = 0
    /\ ~compress_failed(lz.c)

\* the outputs test_arith_encode.c expects for one-byte inputs
KnownVector(byte) ==
    CASE byte = 0   -> <<240>>
      [] byte = 255 -> <<247>>
      [] byte = 127 -> <<7>>
      [] byte = 128 -> <<184>>
      [] byte = 15  -> <<51, 255>>
      [] byte = 240 -> <<76, 255>>

\* arith_encode has returned
ArEncoded == ar.mode = "rt" /\ ar.pc \notin {"start", "enc", "tail"}

\* C20: with window size 256, arith_encode maps the one-byte inputs 0x00,
\* 0xFF, 0x7F and 0x80 to the bytes 0xF0, 0xF7, 0x07 and 0xB8, and the
\* one-byte inputs 0x0F and 0xF0 to the two bytes 0x33 0xFF and 0x4C 0xFF.
C20_KnownVectors ==
    (ar.pc # "idle" /\ lz.pc = "idle" /\ ArEncoded
        /\ Len(ar.src) = 1 /\ ar.window_size = TestWindow
        /\ ar.src[1] \in {0, 255, 127, 128, 15, 240}) =>
            /\ ar.pc # "abort"
            /\ ar.code = KnownVector(ar.src[1])

\* arith_encode has returned the two bytes 0x32 0xFF for the input 0xF0:
\* the bits of 0x4C 0xFF with the first bit of each byte on top
C20_Witness ==
    /\ ar.pc = "encoded"
    /\ ar.mode = "rt"
    /\ ar.src = <<240>>
    /\ ar.window_size = TestWindow
    /\ ar.code = <<50, 255>>
    /\ BitsMsbFirst(ar.code) = BitsLsbFirst(KnownVector(240))
    /\ ar.n_enc = 8

\* C21: when the decoder of arith_decode.c processes the bytes arith_encode
\* produced for S with the same W, then after each of its k <= 8 * |S| bits
\* its low, high, prob[0] and prob[1] are those of the encoder after k
\* bits (kept in trace), and its k-th bit is the k-th bit encoded.
C21_Lockstep ==
    (ar.mode = "rt" /\ ArDec2Started /\ ar.n2 >= 1) =>
        /\ ar.n2 <= Len(ar.trace)
        /\ ar.dec2.out_bit = ar.trace[ar.n2].bit
        /\ ar.dec2.low = ar.trace[ar.n2].low
        /\ ar.dec2.high = ar.trace[ar.n2].high
        /\ ar.dec2.model.prob = ar.trace[ar.n2].prob

\* the decoder has decoded all the bits of the long input with a window
\* of 3 bits, after 1-bits and 0-bits and with an interval that has moved
C21_Witness ==
    /\ ar.mode = "rt"
    /\ ar.pc = "done"
    /\ ar.src = ArLongSrc
    /\ ar.window_size = 3
    /\ ar.n2 = 8 * LongLen
    /\ ar.n2 = Len(ar.trace)
    /\ ar.dec2.low = ar.trace[ar.n2].low
    /\ ar.dec2.low # U32(0)
    /\ \E j, k \in 1..Len(ar.trace) : ar.trace[j].bit # ar.trace[k].bit

\* the emitter of lza_compress.c has flushed the bits written
LzEmitterFlushed == bio.pc \in {"tail", "read"} /\ ~bio.lz_emitter.fail

DistanceBefore(calls, k) == LastMatchDistance(SubSeq(calls, 1, k - 1))

\* the byte at p repeats the byte d back
RepeatsAt(buf, p, d) == d # 0 /\ d <= p /\ Byte(buf, p) = Byte(buf, p - d)

\* C23: with d the distance of the match reported last before p (0 if
\* none), every byte p no match of length >= 2 covers is reported as a match
\* of length 1 at distance d if d # 0 and buf[p] = buf[p - d], and through
\* the literal callback otherwise.
C23_ShortRepFallback ==
    fr.pc # "idle" =>
        \A k \in 1..Len(fr.calls) :
            LET c == fr.calls[k]
                d == DistanceBefore(fr.calls, k)
            IN  /\ (c.what = "match" /\ c.length = 1) =>
                      (c.distance = d /\ RepeatsAt(fr.buf, c.pos, d))
                /\ c.what = "literal" =>
                      \A p \in c.pos..(c.pos + c.size - 1) : ~RepeatsAt(fr.buf, p, d)

\* after a match of length >= 2 one byte was reported as a match of length
\* 1, and a later byte that does not repeat at that distance as a literal
C23_Witness ==
    /\ fr.pc = "done" /\ fr.ret = 0
    /\ \E i, j, k \in 1..Len(fr.calls) :
          /\ i < j /\ j < k
          /\ fr.calls[i].what = "match" /\ fr.calls[i].length >= 2
          /\ fr.calls[j].what = "match" /\ fr.calls[j].length = 1
          /\ fr.calls[j].distance = fr.calls[i].distance
          /\ fr.calls[k].what = "literal"
          /\ DistanceBefore(fr.calls, k) # 0

\* the bits emit_size emits for a length
SizeFieldBits(length) == lz_bit_count(emit_size(init_emitter(FldBufSize), length))

\* the distances whose value fits the integers of the scores
FldSmall(d) == d[1] < 2 ^ 14

\* C24: for every length L in 2..MAX_LZA_SIZE and every distance D >= 1,
\* calc_match_score is 9 * L minus the bits of a MATCH packet (2 type bits,
\* the bits emit_size emits for L, the bits emit_offset emits for D), and
\* calc_longrep_score is 9 * L minus the type bits of the LONGREP packet
\* report_match emits and the bits emit_size emits for L.
C24_ScoreIsSaving ==
    fld.pc = "emitted" =>
        /\ (fld.kind = "dist" /\ FldSmall(fld.distance)) =>
              \A l \in 2..MAX_LZA_SIZE :
                  calc_match_score([length |-> l, distance |-> ToInt(fld.distance),
                                    last |-> -1])
                      = 9 * l - (type_size(TYPE_MATCH) + SizeFieldBits(l) + fld.nbits)
        /\ fld.kind = "len" =>
              \A last \in 0..3 :
                  calc_longrep_score([length |-> fld.length, distance |-> 1,
                                      last |-> last])
                      = 9 * fld.length
                        - (type_size(longrep_type(last)) + fld.nbits)

\* emit_offset has emitted 6 bits for the distance 4, and the score of a
\* match of length 2 at that distance counts 7
C24_Witness ==
    /\ fld.pc = "emitted" /\ fld.kind = "dist"
    /\ fld.distance = U32(4)
    /\ fld.nbits = 6
    /\ calc_match_score([length |-> 2, distance |-> 4, last |-> -1]) = 18 - (2 + 4 + 7)

\* find_repeats is about to call find_longest_occurrence
FrSearching == fr.pc = "loop" /\ fr.pos + 1 < fr.size

\* the longest match at pos that one of the last distances gives
FrAtLastDist == find_occurrence_at_last_dist(fr.buf, fr.pos, fr.size, fr.last_dist)

\* what find_longest_occurrence returns at pos
FrLongest == find_longest_occurrence(fr.buf, fr.pos, fr.size, fr.last_dist, fr.map)

\* the positions of the bucket of the byte pair at pos
FrCandidates == chain_positions(fr.map, PairId(fr.map, get_map_idx(fr.buf, fr.pos)))

\* C25: when one of the last distances gives a match of length L >= 2 at
\* pos, find_longest_occurrence does not choose a plain MATCH (last < 0) of
\* length <= L.
C25_PreferLastDistance ==
    FrSearching =>
        LET rep    == FrAtLastDist
            chosen == FrLongest
        IN  (rep.length >= 2 /\ chosen.last < 0) => chosen.length > rep.length

\* a last distance gives a match of length >= 2, the bucket holds a
\* position at another distance that matches as long, and the repeat of
\* the last distance is chosen
C25_Witness ==
    /\ FrSearching
    /\ LET rep    == FrAtLastDist
           chosen == FrLongest
           olds   == FrCandidates
       IN  /\ rep.length >= 2
           /\ chosen.last >= 0
           /\ chosen.distance = rep.distance
           /\ \E k \in 1..Len(olds) :
                 /\ \A i \in 1..4 : fr.pos - olds[k] # fr.last_dist[i]
                 /\ compare(fr.buf, olds[k], fr.pos, fr.size) >= rep.length

\* C26: for every source byte string, destination size and window size,
\* arith_decode of arith_decode.c writes the same destination bytes as
\* arith_decode of arith_encode.c, and decodes the output of arith_encode
\* back to the input of the encoder.
C26_DecodersInterchangeable ==
    (ar.pc = "done" /\ ar.dest_size > 0) =>
        /\ ar.dest2 = ar.dest1
        /\ ar.mode = "rt" => ar.dest2 = ar.src

\* both decoders have decoded the code of the byte 0x0F: the decoder of
\* arith_encode.c has written 0x0F, the one of arith_decode.c 0xF0
C26_Witness ==
    /\ ar.mode = "rt" /\ ar.pc = "done"
    /\ ar.src = <<15>> /\ ar.window_size = TestWindow
    /\ ar.dest1 = <<15>>
    /\ ar.dest2 = <<240>>

\* compress has called emit_header: find_repeats returned 0, no assertion
\* of the callbacks or of finish_compress failed and the streams fit
LzHeaderCalled ==
    /\ lz.pc \notin {"idle", "start", "find", "failed"}
    /\ fr.pc = "done" /\ fr.ret = 0
    /\ ~compress_failed(lz.c)
    /\ Len(lz_streams(lz.c)) <= lz.dest_size \div 2

\* C27: for every non-empty input, also one that yields no MATCH and no
\* LONGREP packet, each stream size emit_header passes to emit_offset is
\* >= 1, so that assert(offset > 0) does not fail.
C27_HeaderSizesEncodable ==
    (LzHeaderCalled /\ lz.buf # <<>>) =>
        /\ lz.c.sizes.types >= 1
        /\ lz.c.sizes.literals >= 1
        /\ lz.c.sizes.sizes >= 1
        /\ lz.c.sizes.offsets >= 1

\* the input of one byte: one LIT packet, a byte of types and a byte of
\* literals, no length and no distance, and emit_header has failed its
\* assertion
C27_Witness ==
    /\ LzHeaderCalled
    /\ lz.buf = <<97>>
    /\ lz.pc = "abort"
    /\ lz.c.sizes.types = 1 /\ lz.c.sizes.literals = 1
    /\ lz.c.sizes.sizes = 0 /\ lz.c.sizes.offsets = 0
    /\ lz.c.sizes.stats_lit = 1

\* lz_decompress has decoded a packet
LzPacketDecoded == "stream" \in DOMAIN lz.d /\ (lz.d.matches > 0 \/ lz.d.dest # <<>>)

\* C28: for any LZ intermediate bytes, dest + length <= end and
\* distance <= dest - begin hold at every packet of lz_decompress, every
\* byte written is one of the dest_size bytes of the destination, and a
\* match is copied from a distance of at least 1: a repeat packet does not
\* use a last distance that is still 0.
C28_DecoderSafety ==
    LzPacketDecoded =>
        /\ ~lz.d.bad
        /\ Len(lz.d.dest) <= lz.d.dest_size
        /\ lz.d.matches > 0 => lz.d.distance # U32(0)

\* the first packet was a repeat: it took the distance 0 from last_dist,
\* passed both assertions and copied a destination byte onto itself
C28_Witness ==
    /\ LzPacketDecoded
    /\ lz.d.matches = 1
    /\ lz.d.distance = U32(0)
    /\ ~lz.d.bad
    /\ Len(lz.d.dest) >= 1
    /\ lz.d.dest[1] = lz.d.uninit

\* C29: for every input of size n, set_offset allocates at most
\* max(0x10000, 2 * floor(n / 15)) chunks over the whole run, and the
\* assertion first_free_chunk_id < num_chunks of get_free_chunk holds on
\* every call.
C29_ArenaNeverExhausted ==
    fr.pc \in {"loop", "abort", "done"} =>
        /\ fr.map.first_free_chunk_id <= estimate_chunks(fr.size)
        /\ ~(fr.map.bad /\ fr.map.first_free_chunk_id >= fr.map.num_chunks)

\* every pair of bytes has a chunk, the arena of 0x10000 chunks is used
\* up, the chunk of the pair 0 1 is full, and set_offset has asked for one
\* more chunk at the next 0 1
C29_Witness ==
    /\ fr.pc = "abort"
    /\ fr.size = 2 ^ 16 + 2 * MAX_OFFSETS + 2
    /\ fr.map.num_chunks = 2 ^ 16
    /\ fr.map.first_free_chunk_id = fr.map.num_chunks
    /\ fr.map.bad
    /\ fr.map.last_pair_index = 256
    /\ ChunkAt(fr.map, PairId(fr.map, 256)).offset[1] # INVALID_ID

RECURSIVE chain_ids(_, _)
\* the chunk ids the outer loop of find_longest_occurrence visits, in order
chain_ids(map, chunk_id) ==
    IF chunk_id = INVALID_ID THEN <<>>
    ELSE <<chunk_id>> \o chain_ids(map, ChunkAt(map, chunk_id).next_id)

\* the pair indices that have a chunk
FrBuckets ==
    UNION {{h * MapRow + l : l \in DOMAIN fr.map.pair_ids[h]} : h \in 0..(MapRow - 1)}

StrictlyDecreasing(seq) == \A k \in 2..Len(seq) : seq[k] < seq[k - 1]

\* C30: set_offset is called for the positions 0, 1, 2, ... without a gap,
\* and at every point of find_repeats the walk of a bucket from
\* pair_ids[idx] (the chunks by next_id, the slots 0..14 of each, without
\* the empty ones) visits positions in strictly decreasing order, each
\* below the position searched and each the start of the byte pair idx;
\* the chunk ids of a chain are strictly decreasing.
C30_IndexOrdering ==
    (fr.pc \in {"loop", "abort", "done"} /\ fr.size > 0) =>
        /\ ~fr.map.bad
        /\ fr.map.last_pos = Min(fr.pos, fr.size - 1) - 1
        /\ \A idx \in FrBuckets :
              LET olds == chain_positions(fr.map, PairId(fr.map, idx))
              IN  /\ StrictlyDecreasing(olds)
                  /\ StrictlyDecreasing(chain_ids(fr.map, PairId(fr.map, idx)))
                  /\ \A k \in 1..Len(olds) :
                        /\ olds[k] < fr.pos
                        /\ Byte(fr.buf, olds[k]) + 256 * Byte(fr.buf, olds[k] + 1) = idx

\* a bucket has a chain of two chunks, the older one full
C30_Witness ==
    /\ fr.pc = "loop"
    /\ \E idx \in FrBuckets :
          /\ Len(chain_ids(fr.map, PairId(fr.map, idx))) >= 2
          /\ Len(chain_positions(fr.map, PairId(fr.map, idx))) > MAX_OFFSETS

====
